---- MODULE Spec2Model ----
(***************************************************************************)
(* depseeker: the concurrent, cycle-safe dependency graph traversal of     *)
(* src/src/dependency.ts (buildDependencyGraph) together with the          *)
(* specifier resolver and the extension/index prober it drives.            *)
(*                                                                         *)
(* Paths and specifiers are the strings the program handles; the path      *)
(* operators below are the POSIX node:path functions the code calls.       *)
(***************************************************************************)
EXTENDS Integers, Sequences, FiniteSets, TLC

(***************************************************************************)
(* Inputs: the filesystem the fs/promises calls see, the working           *)
(* directory, startPath and options.  A regular file carries what readFile *)
(* and the parser make of it: whether the read succeeds, whether the text  *)
(* parses, and the specifiers the AST walk meets, in source order.         *)
(* requireExtensions is Object.keys(require.extensions) of the process,    *)
(* the extension list tsconfig-paths falls back to.  format is the build   *)
(* of the package that is loaded: "cjs" (dist/index.cjs, where require is  *)
(* defined) or "esm" (dist/index.js, where it is not).  modulePaths is the *)
(* list of global folders require searches after the node_modules          *)
(* directories: the entries of NODE_PATH, then $HOME/.node_modules,        *)
(* $HOME/.node_libraries and $PREFIX/lib/node.  nodeVersion is the major   *)
(* version of the Node that runs the package, which states no engines: 18, *)
(* 20 or 22, the release lines whose builtin modules are listed below.     *)
(***************************************************************************)
VARIABLES fs, cwd, startPath, options, requireExtensions, format, modulePaths, nodeVersion

inputs == <<fs, cwd, startPath, options, requireExtensions, format, modulePaths, nodeVersion>>

\* The release lines of Node the package is followed on.
NodeVersions == {18, 20, 22}

(***************************************************************************)
(* String primitives (String.prototype.startsWith / endsWith / includes).  *)
(***************************************************************************)
StartsWith(s, p) == Len(p) <= Len(s) /\ SubSeq(s, 1, Len(p)) = p

EndsWith(s, p) == Len(p) <= Len(s) /\ SubSeq(s, Len(s) - Len(p) + 1, Len(s)) = p

Includes(s, p) == \E i \in 1..(Len(s) - Len(p) + 1) : SubSeq(s, i, i + Len(p) - 1) = p

\* Index of the last occurrence of the one-character string c in s, 0 if none.
LastIndexOf(s, c) ==
    LET hits == {i \in 1..Len(s) : SubSeq(s, i, i) = c}
    IN  IF hits = {} THEN 0 ELSE CHOOSE i \in hits : \A j \in hits : j <= i

\* Index of the first occurrence of c in s at or after position from, 0 if none.
IndexFrom(s, c, from) ==
    LET hits == {i \in from..Len(s) : SubSeq(s, i, i) = c}
    IN  IF hits = {} THEN 0 ELSE CHOOSE i \in hits : \A j \in hits : i <= j

\* The code units 1 to 255 in ascending order, but for 96, which no string
\* of a module can hold: the control characters, the ASCII characters, and
\* the characters of the Latin-1 supplement.
CodeUnits ==
    "\t\n\f\r"
    \o " !\"#$%&'()*+,-./0123456789:;<=>?@ABCDEFGHIJKLMNOPQRSTUVWXYZ[\\]^_abcdefghijklmnopqrstuvwxyz{|}~"
    \o " ¡¢£¤¥¦§¨©ª«¬­®¯°±²³´µ¶·¸¹º»¼½¾¿ÀÁÂÃÄÅÆÇÈÉÊËÌÍÎÏÐÑÒÓÔÕÖ×ØÙÚÛÜÝÞßàáâãäåæçèéêëìíîïðñòóôõö÷øùúûüýþÿ"

\* The place of each code unit of CodeUnits in the order.
RankOf ==
    [c \in {SubSeq(CodeUnits, i, i) : i \in 1..Len(CodeUnits)} |->
        CHOOSE i \in 1..Len(CodeUnits) : SubSeq(CodeUnits, i, i) = c]

\* The place of the code unit c in the order.  The strings of the model are
\* over CodeUnits; the order of another code unit is not defined here.
Rank(c) == RankOf[c]

\* a < b for strings, by UTF-16 code units.
RECURSIVE Before(_, _)
Before(a, b) ==
    IF b = "" THEN FALSE
    ELSE IF a = "" THEN TRUE
    ELSE IF SubSeq(a, 1, 1) = SubSeq(b, 1, 1)
         THEN Before(SubSeq(a, 2, Len(a)), SubSeq(b, 2, Len(b)))
         ELSE Rank(SubSeq(a, 1, 1)) < Rank(SubSeq(b, 1, 1))

(***************************************************************************)
(* node:path (posix).                                                      *)
(***************************************************************************)
sep == "/"

isAbsolute(p) == StartsWith(p, sep)

\* The segments of p between separators, empty segments included.
RECURSIVE SplitFrom(_, _)
SplitFrom(p, from) ==
    LET i == IndexFrom(p, sep, from)
    IN  IF i = 0 THEN <<SubSeq(p, from, Len(p))>>
        ELSE <<SubSeq(p, from, i - 1)>> \o SplitFrom(p, i + 1)

Segments(p) == SplitFrom(p, 1)

\* normalizeString: drops "" and ".", and lets ".." cancel the segment before
\* it; above the root ".." is dropped (absolute) or kept (relative).
RECURSIVE NormalizeSegs(_, _, _)
NormalizeSegs(segs, acc, abs) ==
    IF segs = <<>> THEN acc
    ELSE LET h == Head(segs)
             t == Tail(segs)
         IN  IF h = "" \/ h = "." THEN NormalizeSegs(t, acc, abs)
             ELSE IF h = ".."
                  THEN IF acc # <<>> /\ acc[Len(acc)] # ".."
                       THEN NormalizeSegs(t, SubSeq(acc, 1, Len(acc) - 1), abs)
                       ELSE IF abs THEN NormalizeSegs(t, acc, abs)
                            ELSE NormalizeSegs(t, Append(acc, ".."), abs)
                  ELSE NormalizeSegs(t, Append(acc, h), abs)

RECURSIVE JoinSegs(_)
JoinSegs(segs) ==
    IF segs = <<>> THEN ""
    ELSE IF Len(segs) = 1 THEN segs[1]
         ELSE segs[1] \o sep \o JoinSegs(Tail(segs))

\* The normalized segments of path.resolve(from, to): the operands are taken
\* from the right until one is absolute, and process.cwd() stands before them
\* when none is.
ResolvedSegs(from, to) ==
    NormalizeSegs(Segments(IF isAbsolute(to) THEN to
                           ELSE IF isAbsolute(from) THEN from \o sep \o to
                                ELSE cwd \o sep \o from \o sep \o to),
                  <<>>, TRUE)

\* path.resolve(from, to)
resolve(from, to) == sep \o JoinSegs(ResolvedSegs(from, to))

\* The text of a normalized path whose segments join to body: an empty
\* relative one is ".", and a trailing separator of the raw text is kept.
PathText(abs, body, trailing) ==
    IF body = "" THEN (IF abs THEN sep ELSE IF trailing THEN "." \o sep ELSE ".")
    ELSE (IF abs THEN sep ELSE "") \o body \o (IF trailing THEN sep ELSE "")

\* path.normalize(raw)
normalize(raw) ==
    IF raw = "" THEN "."
    ELSE PathText(isAbsolute(raw),
                  JoinSegs(NormalizeSegs(Segments(raw), <<>>, isAbsolute(raw))),
                  EndsWith(raw, sep))

\* path.join(a, b): the operands that are not empty, joined by a separator
\* and normalized; "." when both are empty.
join(a, b) ==
    IF a = "" THEN normalize(b)
    ELSE IF b = "" THEN normalize(a)
         ELSE normalize(a \o sep \o b)

\* Index of the last character of p that is not a separator, 0 if none.
LastNonSep(p) ==
    LET hits == {i \in 1..Len(p) : SubSeq(p, i, i) # sep}
    IN  IF hits = {} THEN 0 ELSE CHOOSE i \in hits : \A j \in hits : j <= i

\* Index of the last separator of p before position last, 0 if none.
LastSepBefore(p, last) == LastIndexOf(SubSeq(p, 1, last - 1), sep)

\* The directory part of p, whose last separator before its base name is at
\* position cut (0 when there is none, or only the leading one).
DirPart(p, cut) ==
    IF cut <= 1 THEN (IF isAbsolute(p) THEN sep ELSE ".")
    ELSE IF cut = 2 /\ isAbsolute(p) THEN sep \o sep
         ELSE SubSeq(p, 1, cut - 1)

\* path.dirname(p): trailing separators are ignored.
dirname(p) == DirPart(p, LastSepBefore(p, LastNonSep(p)))

\* The characters of p from after the separator at cut to position last.
BasePart(p, cut, last) == SubSeq(p, cut + 1, last)

\* path.basename(p): trailing separators are ignored.
basename(p) == BasePart(p, LastSepBefore(p, LastNonSep(p)), LastNonSep(p))

\* The extension of the base name b whose last "." is at position i.
ExtPart(b, i) == IF i <= 1 \/ b = ".." THEN "" ELSE SubSeq(b, i, Len(b))

\* path.extname(p): from the last "." of the base name; "" when there is
\* none, when the base name starts with its only ".", or when it is "..".
extname(p) == ExtPart(basename(p), LastIndexOf(basename(p), "."))

RECURSIVE CommonPrefixLen(_, _)
CommonPrefixLen(a, b) ==
    IF a = <<>> \/ b = <<>> THEN 0
    ELSE IF Head(a) = Head(b) THEN 1 + CommonPrefixLen(Tail(a), Tail(b))
         ELSE 0

\* The path from segments f to segments t that share their first n segments:
\* one ".." per remaining segment of f, then the rest of t.
RelativeFrom(f, t, n) ==
    JoinSegs([i \in 1..(Len(f) - n) |-> ".."] \o SubSeq(t, n + 1, Len(t)))

RelativeSegs(f, t) == RelativeFrom(f, t, CommonPrefixLen(f, t))

\* path.relative(from, to), both first resolved against the working directory.
relative(from, to) ==
    RelativeSegs(ResolvedSegs(cwd, from), ResolvedSegs(cwd, to))

Dir == [type |-> "dir"]

\* A FIFO that no process writes to: neither a regular file nor a
\* directory, and a read of it never completes.
Other == [type |-> "other"]

File(refs) == [type |-> "file", readable |-> TRUE, parses |-> TRUE, refs |-> refs]

Unreadable == [type |-> "file", readable |-> FALSE, parses |-> TRUE, refs |-> <<>>]

Unparsable == [type |-> "file", readable |-> TRUE, parses |-> FALSE, refs |-> <<>>]

\* A readable file that parses and whose AST walk throws when it has met the
\* first met of its references.
WalkFails(refs, met) == [type |-> "file", readable |-> TRUE, parses |-> TRUE, refs |-> refs,
                         met |-> met]

\* A tsconfig document as JSON.parse gives it: extends ("" when absent),
\* compilerOptions.baseUrl ("" when absent) and compilerOptions.paths as the
\* list of its keys, in order, each with its candidate list.
Doc(extends, baseUrl, paths) == [extends |-> extends, baseUrl |-> baseUrl, paths |-> paths]

\* A document whose compilerOptions has the key baseUrl with the value "".
DocEmptyBaseUrl(extends, paths) ==
    [extends |-> extends, baseUrl |-> "", paths |-> paths, hasBaseUrl |-> TRUE]

\* compilerOptions of the document has the key baseUrl.
HasBaseUrl(config) ==
    config.baseUrl # "" \/ ("hasBaseUrl" \in DOMAIN config /\ config.hasBaseUrl)

Rule(pattern, candidates) == [pattern |-> pattern, candidates |-> candidates]

\* A readable file whose text is the JSON of doc.
Json(doc) == [type |-> "file", readable |-> TRUE, parses |-> FALSE, refs |-> <<>>,
              doc |-> doc]

\* A package.json whose only field is main.
Package(main) == [type |-> "file", readable |-> TRUE, parses |-> FALSE, refs |-> <<>>,
                  main |-> main]

\* import ... from 'text'
Imp(text) == [text |-> text, kind |-> "import", typeOnly |-> FALSE]

\* import type ... from 'text' (importKind "type")
ImpType(text) == [text |-> text, kind |-> "import", typeOnly |-> TRUE]

\* export type ... from 'text' (exportKind "type")
ExpType(text) == [text |-> text, kind |-> "export", typeOnly |-> TRUE]

\* fs is keyed by absolute normalized paths.  The operating system has a
\* directory at q when fs has one, and at the root, at the working directory
\* and above it.
DirectoryAt(q) ==
    IF q \in DOMAIN fs THEN fs[q].type = "dir"
    ELSE q = sep \/ StartsWith(cwd \o sep, q \o sep)

\* cur followed by the segment name.
Below(cur, name) == IF cur = sep THEN sep \o name ELSE cur \o sep \o name

\* The path lookup of the operating system, from the directory entry cur
\* along segs: "", "." stay, ".." goes up, a name goes down; every step starts
\* in a directory.  "" when the lookup fails.
RECURSIVE WalkPath(_, _)
WalkPath(cur, segs) ==
    IF segs = <<>> THEN cur
    ELSE IF ~DirectoryAt(cur) THEN ""
    ELSE IF Head(segs) = "" \/ Head(segs) = "." THEN WalkPath(cur, Tail(segs))
    ELSE IF Head(segs) = ".." THEN WalkPath(dirname(cur), Tail(segs))
    ELSE IF Below(cur, Head(segs)) \in DOMAIN fs \/ DirectoryAt(Below(cur, Head(segs)))
         THEN WalkPath(Below(cur, Head(segs)), Tail(segs))
         ELSE ""

\* The key of fs the operating system finds for the path p, taken from the
\* working directory when p is relative; "" when there is nothing at p.
RealPath(p) ==
    IF p = "" THEN ""
    ELSE IF p \in DOMAIN fs THEN p
    ELSE WalkPath(sep, Segments(IF isAbsolute(p) THEN p ELSE cwd \o sep \o p))

\* What fs holds at p (a directory where fs names none).
Entry(p) == IF RealPath(p) \in DOMAIN fs THEN fs[RealPath(p)] ELSE Dir

\* fsp.access(p) succeeds.
Exists(p) == RealPath(p) # ""

\* The text of the file entry is JSON: a tsconfig document or a package.json.
IsJson(entry) == "doc" \in DOMAIN entry \/ "main" \in DOMAIN entry

\* JSON.parse(content) of the file at p, read as a tsconfig: the document,
\* or for other JSON an object with no extends and no compilerOptions.
ConfigAt(p) == IF "doc" \in DOMAIN Entry(p) THEN Entry(p).doc ELSE Doc("", "", <<>>)

\* fsp.stat(p).isFile() / .isDirectory(); stat rejects when p does not exist.
IsFile(p) == Exists(p) /\ Entry(p).type = "file"

IsDirectory(p) == Exists(p) /\ Entry(p).type = "dir"

\* RegExp.prototype.test for the two shapes of pattern used: /text/ and /text$/.
RegExpTest(re, s) ==
    IF re.kind = "endsWith" THEN EndsWith(s, re.text) ELSE Includes(s, re.text)

\* options.excludeRegExp.some((regex) => regex.test(relativePath))
Excluded(relativePath) ==
    \E i \in 1..Len(options.excludeRegExp) : RegExpTest(options.excludeRegExp[i], relativePath)

\* path.relative(options.baseDir, p)
Rel(p) == relative(options.baseDir, p)

\* The first path of seq that fsp.access accepts, "" (undefined) when none does.
FirstExisting(seq) ==
    LET hits == {i \in 1..Len(seq) : Exists(seq[i])}
    IN  IF hits = {} THEN "" ELSE seq[CHOOSE i \in hits : \A j \in hits : i <= j]

\* The last path of seq that exists as a regular file, "" when none does.
LastFile(seq) ==
    LET hits == {i \in 1..Len(seq) : IsFile(seq[i])}
    IN  IF hits = {} THEN "" ELSE seq[CHOOSE i \in hits : \A j \in hits : j <= i]

\* The first path of seq that exists as a regular file, "" when none does.
FirstFile(seq) ==
    LET hits == {i \in 1..Len(seq) : IsFile(seq[i])}
    IN  IF hits = {} THEN "" ELSE seq[CHOOSE i \in hits : \A j \in hits : i <= j]

WithDot(ext) == IF StartsWith(ext, ".") THEN ext ELSE "." \o ext

\* A prober that tries the appended extensions before the path as written
\* and the index files.
ProbeExtensionFirst(filePath, extensions) ==
    LET indexes    == [i \in 1..Len(extensions) |->
                          join(filePath, "index" \o WithDot(extensions[i]))]
        appended   == [i \in 1..Len(extensions) |-> filePath \o WithDot(extensions[i])]
        index      == IF IsDirectory(filePath) THEN FirstExisting(indexes) ELSE ""
    IN  IF FirstFile(appended) # "" THEN FirstFile(appended)
        ELSE IF IsFile(filePath) THEN filePath
             ELSE index

(***************************************************************************)
(* resolveFileWithExtensions: the path as written when it is a regular     *)
(* file; for a directory the first index.<ext> that can be accessed; then  *)
(* the first <path>.<ext> that is a regular file; else undefined ("").     *)
(***************************************************************************)
resolveFileWithExtensions(filePath, extensions) ==
    LET indexes    == [i \in 1..Len(extensions) |->
                          join(filePath, "index" \o WithDot(extensions[i]))]
        appended   == [i \in 1..Len(extensions) |-> filePath \o WithDot(extensions[i])]
        index      == IF IsDirectory(filePath) THEN FirstExisting(indexes) ELSE ""
    IN  IF IsFile(filePath) THEN filePath
        ELSE IF index # "" THEN index
             ELSE FirstFile(appended)

(***************************************************************************)
(* tsMatchPath: the matcher createMatchPath(baseUrl, paths) returns, or    *)
(* undefined when options.tsConfig is not set or could not be loaded.      *)
(* The matcher is that of tsconfig-paths 4: the patterns of paths sorted   *)
(* by longest prefix, followed by the match-all pattern "*" -> baseUrl/*   *)
(* that createMatchPath adds; for each pattern that matches, each          *)
(* candidate is tried as written, with each extension, and as a directory  *)
(* with an index file; the first try that is a regular file wins and is    *)
(* returned without the extension or index part.  (The package.json try    *)
(* of the library never hits: the filesystems explored hold none.)         *)
(***************************************************************************)
VARIABLE tsMatchPath

NoMatcher == [defined |-> FALSE, baseUrl |-> "", paths |-> <<>>]

\* getPrefixLength: the length of the pattern before its "*", 0 without one.
PrefixLength(pattern) ==
    LET i == IndexFrom(pattern, "*", 1)
    IN  IF i = 0 THEN 0 ELSE i - 1

\* sortByLongestPrefix: a stable sort, longest prefix first.
RECURSIVE SortByLongestPrefix(_)
SortByLongestPrefix(rules) ==
    IF rules = <<>> THEN <<>>
    ELSE LET best == CHOOSE i \in 1..Len(rules) : \A j \in 1..Len(rules) :
                         \/ PrefixLength(rules[j].pattern) < PrefixLength(rules[i].pattern)
                         \/ /\ PrefixLength(rules[j].pattern) = PrefixLength(rules[i].pattern)
                            /\ i <= j
         IN  <<rules[best]>>
             \o SortByLongestPrefix(SubSeq(rules, 1, best - 1)
                                    \o SubSeq(rules, best + 1, Len(rules)))

\* The sorted rules with their candidates resolved against baseUrl.
AbsoluteEntries(baseUrl, sorted) ==
    [i \in 1..Len(sorted) |->
        [pattern |-> sorted[i].pattern,
         paths   |-> [k \in 1..Len(sorted[i].candidates) |->
                         resolve(baseUrl, sorted[i].candidates[k])]]]

\* The entry added for lookups under baseUrl: "*" -> baseUrl/*.
MatchAll(baseUrl) ==
    [pattern |-> "*",
     paths   |-> <<(IF EndsWith(baseUrl, sep) THEN SubSeq(baseUrl, 1, Len(baseUrl) - 1)
                    ELSE baseUrl) \o "/*">>]

\* getAbsoluteMappingEntries(absoluteBaseUrl, paths, true)
MappingEntries(baseUrl, paths) ==
    IF \E i \in 1..Len(paths) : paths[i].pattern = "*"
    THEN AbsoluteEntries(baseUrl, SortByLongestPrefix(paths))
    ELSE Append(AbsoluteEntries(baseUrl, SortByLongestPrefix(paths)), MatchAll(baseUrl))

NoStar == [ok |-> FALSE, text |-> ""]

\* matchStar(pattern, search): what the "*" of pattern stands for in search.
MatchStar(pattern, search) ==
    LET star  == IndexFrom(pattern, "*", 1)
        part1 == SubSeq(pattern, 1, star - 1)
        part2 == SubSeq(pattern, star + 1, Len(pattern))
        last  == star - 1 + Len(search) - Len(part2)
    IN  IF Len(search) < Len(pattern) THEN NoStar
        ELSE IF pattern = "*" THEN [ok |-> TRUE, text |-> search]
        ELSE IF star = 0 THEN NoStar
        ELSE IF SubSeq(search, 1, star - 1) # part1 THEN NoStar
        ELSE IF ~EndsWith(search, part2) THEN NoStar
        ELSE [ok |-> TRUE,
              text |-> SubSeq(search, star, IF last < Len(search) THEN last ELSE Len(search))]

\* entry.pattern === requestedModule ? "" : matchStar(entry.pattern, requestedModule)
StarMatch(pattern, requestedModule) ==
    IF pattern = requestedModule THEN [ok |-> TRUE, text |-> ""]
    ELSE MatchStar(pattern, requestedModule)

\* physicalPathPattern.replace("*", starMatch): the first "*" only.
ReplaceStar(physicalPathPattern, text) ==
    LET i == IndexFrom(physicalPathPattern, "*", 1)
    IN  IF i = 0 THEN physicalPathPattern
        ELSE SubSeq(physicalPathPattern, 1, i - 1) \o text
             \o SubSeq(physicalPathPattern, i + 1, Len(physicalPathPattern))

\* The tries of one physical path: the file, each extension, each index file.
TriesOfPath(physicalPath, extensions) ==
    <<[type |-> "file", path |-> physicalPath]>>
    \o [i \in 1..Len(extensions) |->
           [type |-> "extension", path |-> physicalPath \o extensions[i]]]
    \o [i \in 1..Len(extensions) |->
           [type |-> "index", path |-> join(physicalPath, "/index") \o extensions[i]]]

RECURSIVE TriesOfPaths(_, _, _)
TriesOfPaths(physicalPathPatterns, text, extensions) ==
    IF physicalPathPatterns = <<>> THEN <<>>
    ELSE TriesOfPath(ReplaceStar(Head(physicalPathPatterns), text), extensions)
         \o TriesOfPaths(Tail(physicalPathPatterns), text, extensions)

\* getPathsToTry(extensions, absolutePathMappings, requestedModule)
RECURSIVE PathsToTry(_, _, _)
PathsToTry(entries, requestedModule, extensions) ==
    IF entries = <<>> THEN <<>>
    ELSE LET m == StarMatch(Head(entries).pattern, requestedModule)
         IN  (IF m.ok THEN TriesOfPaths(Head(entries).paths, m.text, extensions) ELSE <<>>)
             \o PathsToTry(Tail(entries), requestedModule, extensions)

\* getStrippedPath(tryPath)
StrippedPath(try) ==
    IF try.type = "index" THEN dirname(try.path)
    ELSE IF try.type = "extension" THEN SubSeq(try.path, 1, LastIndexOf(try.path, ".") - 1)
         ELSE try.path

\* The stripped path of the first try that is a regular file, "" when none is.
FirstHit(tries) ==
    LET hits == {i \in 1..Len(tries) : IsFile(tries[i].path)}
    IN  IF hits = {} THEN ""
        ELSE StrippedPath(tries[CHOOSE i \in hits : \A j \in hits : i <= j])

\* tsMatchPath?.(source, undefined, undefined, extensions): the stripped path
\* of the first try that is a regular file, undefined ("") when there is no
\* matcher, the source is empty or starts with ".", or no try exists.
tsMatch(source, extensions) ==
    IF ~tsMatchPath.defined \/ source = "" \/ StartsWith(source, ".") THEN ""
    ELSE FirstHit(PathsToTry(MappingEntries(tsMatchPath.baseUrl, tsMatchPath.paths),
                             source, extensions))

DotExts == [i \in 1..Len(options.fileExtensions) |-> "." \o options.fileExtensions[i]]

\* tsMatchPath?.(source) without an extension list: the library falls back to
\* Object.keys(require.extensions).
DefaultExts == requireExtensions

(***************************************************************************)
(* resolveTsConfig(tsConfigPath): the document with its extends chain      *)
(* merged in, base first; ok = FALSE when it throws (a document of the     *)
(* chain cannot be read, is not JSON, or its extends cannot be located);   *)
(* settles = FALSE when its promise stays pending.                         *)
(***************************************************************************)
ConfigThrows == [ok |-> FALSE, settles |-> TRUE, baseUrl |-> "", paths |-> <<>>]

\* The modules built into the running Node that require can load, and those
\* it can load only under the node: scheme: inspector/promises and node:sea
\* came with Node 20, node:sqlite with Node 22.
BuiltinModules ==
    {"_http_agent", "_http_client", "_http_common", "_http_incoming", "_http_outgoing",
     "_http_server", "_stream_duplex", "_stream_passthrough", "_stream_readable",
     "_stream_transform", "_stream_wrap", "_stream_writable", "_tls_common", "_tls_wrap",
     "assert", "assert/strict", "async_hooks", "buffer", "child_process", "cluster",
     "console", "constants", "crypto", "dgram", "diagnostics_channel", "dns",
     "dns/promises", "domain", "events", "fs", "fs/promises", "http", "http2", "https",
     "inspector", "module", "net", "os", "path", "path/posix",
     "path/win32", "perf_hooks", "process", "punycode", "querystring", "readline",
     "readline/promises", "repl", "stream", "stream/consumers", "stream/promises",
     "stream/web", "string_decoder", "sys", "timers", "timers/promises", "tls",
     "trace_events", "tty", "url", "util", "util/types", "v8", "vm", "wasi",
     "worker_threads", "zlib"}
    \cup (IF nodeVersion >= 20 THEN {"inspector/promises"} ELSE {})

SchemeOnlyModules ==
    {"test", "test/reporters"}
    \cup (IF nodeVersion >= 20 THEN {"sea"} ELSE {})
    \cup (IF nodeVersion >= 22 THEN {"sqlite"} ELSE {})

IsBuiltin(request) ==
    \/ request \in BuiltinModules
    \/ /\ StartsWith(request, "node:")
       /\ SubSeq(request, 6, Len(request)) \in BuiltinModules \cup SchemeOnlyModules

\* Module._nodeModulePaths(from): the node_modules of from and of every
\* directory above it, nearest first, but for a directory that is itself
\* named node_modules.
NodeModulePaths(from) ==
    LET segs     == ResolvedSegs(from, "")
        dirs     == [k \in 1..(Len(segs) + 1) |-> SubSeq(segs, 1, Len(segs) + 1 - k)]
        Named(d) == d = <<>> \/ d[Len(d)] # "node_modules"
        kept     == SelectSeq(dirs, Named)
    IN  [i \in 1..Len(kept) |-> sep \o JoinSegs(Append(kept[i], "node_modules"))]

\* a, or b when a is "".
OrElse(a, b) == IF a # "" THEN a ELSE b

\* What stands for the outcome of a require.resolve that never returns: it
\* reads the package.json files on its way synchronously, and the read of a
\* FIFO that no process writes to does not complete.
Never == "<never>"

\* The read of the package.json of the directory dir never completes.
PackageBlocks(dir) ==
    LET packageJson == Below(dir, "package.json")
    IN  Exists(packageJson) /\ Entry(packageJson).type = "other"

\* tryFile(requestPath): the real path of what is at requestPath unless that
\* is a directory, "" when there is nothing or a directory.
TryFile(requestPath) ==
    IF Exists(requestPath) /\ ~IsDirectory(requestPath) THEN RealPath(requestPath) ELSE ""

\* tryExtensions(basePath, exts): the first basePath + ext that tryFile takes.
RECURSIVE TryExtensions(_, _)
TryExtensions(basePath, exts) ==
    IF exts = <<>> THEN ""
    ELSE OrElse(TryFile(basePath \o Head(exts)), TryExtensions(basePath, Tail(exts)))

\* The package.json at packageJson is read and is not JSON.
NotJson(packageJson, entry) ==
    /\ IsFile(packageJson)
    /\ entry.readable
    /\ ~IsJson(entry)

\* The package.json of the directory dir is read and is not JSON.
PackageThrows(dir) ==
    NotJson(Below(dir, "package.json"), Entry(Below(dir, "package.json")))

\* The main of the package.json at packageJson, "" when there is no
\* package.json to read or it has no main.
MainOf(packageJson, entry) ==
    IF IsFile(packageJson) /\ entry.readable /\ "main" \in DOMAIN entry
    THEN entry.main
    ELSE ""

\* The main of the package.json of the directory dir.
PackageMain(dir) ==
    MainOf(Below(dir, "package.json"), Entry(Below(dir, "package.json")))

\* The file at filename, which a main names: the file itself, with an
\* extension, or its index.
TryMain(filename, exts) ==
    OrElse(TryFile(filename),
           OrElse(TryExtensions(filename, exts),
                  TryExtensions(resolve(filename, "index"), exts)))

\* tryPackage for a package.json with the main given: what the main names,
\* else the index of the directory.
TryPackageMain(requestPath, main, exts) ==
    OrElse(IF main = "" THEN "" ELSE TryMain(resolve(requestPath, main), exts),
           TryExtensions(resolve(requestPath, "index"), exts))

\* tryPackage(requestPath, exts)
TryPackage(requestPath, exts) ==
    TryPackageMain(requestPath, PackageMain(requestPath), exts)

\* The length of the run of characters of s from position from that are
\* none of "/", "\" and "%".
RECURSIVE NameRun(_, _)
NameRun(s, from) ==
    IF from > Len(s) \/ SubSeq(s, from, from) \in {"/", "\\", "%"} THEN 0
    ELSE 1 + NameRun(s, from + 1)

\* The character of s at position i, "" beyond its end.
CharAt(s, i) == IF i \in 1..Len(s) THEN SubSeq(s, i, i) ELSE ""

\* A name starts at position start of request: a character that is none of
\* ".", "/", "\" and "%".
NameAt(request, start) == NameRun(request, start) > 0 /\ CharAt(request, start) # "."

\* The position after the scope of request, whose scope is scope characters
\* long; 1 when request has no scope followed by a name.
AfterScope(request, scope) ==
    IF scope > 0 /\ CharAt(request, scope + 2) = "/" /\ NameAt(request, scope + 3)
    THEN scope + 3
    ELSE 1

\* The request up to the end of the name that starts at position start, when
\* the request ends with the name or goes on with "/" and has no line break
\* after it; "" when no name starts there or something else follows it.
NameFrom(request, start) ==
    LET next    == start + NameRun(request, start)
        Ends    == next > Len(request)
        GoesOn  == /\ CharAt(request, next) = "/"
                   /\ \A i \in next..Len(request) : SubSeq(request, i, i) \notin {"\n", "\r"}
    IN  IF NameAt(request, start) /\ (Ends \/ GoesOn) THEN SubSeq(request, 1, next - 1)
        ELSE ""

\* The package name a request starts with, "" when it starts with none: the
\* name with its scope, else the name that starts the request.
PackageName(request) ==
    OrElse(NameFrom(request,
                    AfterScope(request, IF StartsWith(request, "@") THEN NameRun(request, 2) ELSE 0)),
           NameFrom(request, 1))

\* The request names a directory whatever is at its path.
TrailingSlash(request) ==
    \/ EndsWith(request, "/") \/ EndsWith(request, "/.") \/ EndsWith(request, "/..")
    \/ request \in {".", ".."}

\* The package.json of the package called name under curPath is not JSON.
NamedPackageThrows(curPath, name) ==
    name # "" /\ PackageThrows(resolve(curPath, name))

\* The read of the package.json of the package called name under curPath
\* never completes.
NamedPackageBlocks(curPath, name) ==
    name # "" /\ PackageBlocks(resolve(curPath, name))

\* One round of the loop of Module._findPath, for a request at basePath under
\* curPath: curPath is skipped unless it is a directory; reading the
\* package.json of the package the request names may never complete, or
\* throw; the request is taken as a file, then as a directory through
\* tryPackage, which reads the package.json of the directory and throws for
\* a main that names nothing when there is no index either; rest is what
\* the rounds after it find.
FindStep(skipped, blocks, throws, asFile, isDir, packageBlocks, packageThrows, main, package, rest) ==
    IF skipped THEN rest
    ELSE IF blocks THEN Never
    ELSE IF throws THEN ""
    ELSE IF asFile # "" THEN asFile
    ELSE IF ~isDir THEN rest
    ELSE IF packageBlocks THEN Never
    ELSE IF packageThrows THEN ""
    ELSE IF package # "" THEN package
    ELSE IF main # "" THEN ""
    ELSE rest

\* The request as a file at basePath: what is there unless a directory, or
\* with an extension.
AsFile(request, basePath, exts) ==
    IF TrailingSlash(request) THEN ""
    ELSE OrElse(TryFile(basePath), TryExtensions(basePath, exts))

FindAt(request, curPath, basePath, exts, rest) ==
    FindStep(curPath # "" /\ ~IsDirectory(curPath),
             ~isAbsolute(request) /\ NamedPackageBlocks(curPath, PackageName(request)),
             ~isAbsolute(request) /\ NamedPackageThrows(curPath, PackageName(request)),
             AsFile(request, basePath, exts),
             IsDirectory(basePath),
             PackageBlocks(basePath),
             PackageThrows(basePath),
             PackageMain(basePath),
             TryPackage(basePath, exts),
             rest)

\* Module._findPath(request, paths): the first of paths under which the
\* request is found as a file, with an extension, or as a directory with a
\* main or an index; "" when none is found or the search throws, Never when
\* it does not return.  The package.json documents have no exports.
RECURSIVE FindPath(_, _)
FindPath(request, paths) ==
    IF paths = <<>> THEN ""
    ELSE FindAt(request, Head(paths), resolve(Head(paths), request), requireExtensions,
                FindPath(request, Tail(paths)))

\* require.resolve(request, {paths: [basePath]}): "" when it throws, Never
\* when it does not return.  The request is looked up as a path when it is
\* absolute, else in the node_modules directories from basePath up and then
\* in the global folders; a builtin module resolves to its name.  Where
\* require is not defined the expression throws.
RequireResolve(request, basePath) ==
    IF format # "cjs" THEN ""
    ELSE IF IsBuiltin(request) THEN request
    ELSE FindPath(request, IF isAbsolute(request) THEN <<"">>
                           ELSE NodeModulePaths(basePath) \o modulePaths)

\* A shallow merge: the child's paths replace the base's as a whole.
ShallowPaths(basePaths, childPaths) ==
    IF childPaths # <<>> THEN childPaths ELSE basePaths

\* key is an integer index of an object: a canonical numeral up to 2^32 - 2.
IsIndexKey(key) ==
    /\ key # ""
    /\ \A i \in 1..Len(key) : IndexFrom("0123456789", SubSeq(key, i, i), 1) # 0
    /\ Len(key) = 1 \/ SubSeq(key, 1, 1) # "0"
    /\ Len(key) < 10 \/ (Len(key) = 10 /\ ~Before("4294967294", key))

\* a < b for integer indices.
IndexBefore(a, b) == Len(a) < Len(b) \/ (Len(a) = Len(b) /\ Before(a, b))

\* The rules in ascending order of their integer indices.
RECURSIVE ByIndex(_)
ByIndex(rules) ==
    IF rules = <<>> THEN <<>>
    ELSE LET least == CHOOSE i \in 1..Len(rules) :
                          \A j \in 1..Len(rules) :
                              ~IndexBefore(rules[j].pattern, rules[i].pattern)
         IN  <<rules[least]>>
             \o ByIndex(SubSeq(rules, 1, least - 1) \o SubSeq(rules, least + 1, Len(rules)))

\* The order in which an object holds its keys: the integer indices
\* ascending, then the other keys in the order they were added.
KeyOrder(rules) ==
    LET IsIndex(rule) == IsIndexKey(rule.pattern)
        IsName(rule)  == ~IsIndexKey(rule.pattern)
    IN  ByIndex(SelectSeq(rules, IsIndex)) \o SelectSeq(rules, IsName)

\* {...basePaths, ...childPaths}: the keys of the base, each with the child's
\* list when the child has the key, then the child's own keys, as the object
\* holds them.
MergePaths(basePaths, childPaths) ==
    LET childOf(pattern) ==
            {i \in 1..Len(childPaths) : childPaths[i].pattern = pattern}
        kept == [i \in 1..Len(basePaths) |->
                    IF childOf(basePaths[i].pattern) = {} THEN basePaths[i]
                    ELSE childPaths[CHOOSE k \in childOf(basePaths[i].pattern) : TRUE]]
        IsNew(rule) == \A i \in 1..Len(basePaths) : basePaths[i].pattern # rule.pattern
    IN  KeyOrder(kept \o SelectSeq(childPaths, IsNew))

\* extendsPath for a document at tsConfigPath whose extends is given.
ExtendsOf(tsConfigPath, extends) ==
    IF StartsWith(extends, ".")
    THEN resolve(dirname(tsConfigPath), extends)
    ELSE RequireResolve(extends, dirname(tsConfigPath))

\* extendsPath: the document the extends of the document at tsConfigPath
\* names, "" when require.resolve throws, Never when it does not return.
ExtendsPath(tsConfigPath) == ExtendsOf(tsConfigPath, ConfigAt(tsConfigPath).extends)

\* fsp.readFile(p) never completes.
ReadHangs(p) == Exists(p) /\ Entry(p).type = "other"

\* resolveTsConfig(tsConfigPath) never settles: the read of a document on
\* the way never completes, or every document on the way can be read, is
\* JSON and has an extends that is located, and the way comes back to a
\* document in seen or to itself, or locating an extends does not return.
RECURSIVE NeverEnds(_, _)

\* The call for the document at extendsPath, made by the calls for the
\* documents in seen, never settles.
CallNeverEnds(extendsPath, seen) ==
    /\ extendsPath # ""
    /\ IF extendsPath = Never \/ extendsPath \in seen THEN TRUE
       ELSE NeverEnds(extendsPath, seen)

NeverEnds(tsConfigPath, seen) ==
    \/ ReadHangs(tsConfigPath)
    \/ /\ IsFile(tsConfigPath)
       /\ Entry(tsConfigPath).readable
       /\ IsJson(Entry(tsConfigPath))
       /\ ConfigAt(tsConfigPath).extends # ""
       /\ CallNeverEnds(ExtendsPath(tsConfigPath), seen \cup {tsConfigPath})

\* The promise of resolveTsConfig stays pending.
ConfigPending == [ok |-> FALSE, settles |-> FALSE, baseUrl |-> "", paths |-> <<>>]

\* mergedConfig: the base configuration with the document's own on top.
MergeConfigs(baseConfig, config) ==
    IF ~baseConfig.ok THEN ConfigThrows
    ELSE [ok      |-> TRUE,
          settles |-> TRUE,
          baseUrl |-> IF HasBaseUrl(config) THEN config.baseUrl ELSE baseConfig.baseUrl,
          paths   |-> MergePaths(baseConfig.paths, config.paths)]

\* The recursion of resolveTsConfig, for a call that settles.
RECURSIVE MergedConfig(_)

\* The document config merged over the one at extendsPath.
ExtendFrom(config, extendsPath) ==
    IF extendsPath = "" THEN ConfigThrows
    ELSE MergeConfigs(MergedConfig(extendsPath), config)

\* The outcome for the document config read at tsConfigPath.
ConfigOf(tsConfigPath, config) ==
    IF config.extends = ""
    THEN [ok |-> TRUE, settles |-> TRUE, baseUrl |-> config.baseUrl,
          paths |-> KeyOrder(config.paths)]
    ELSE ExtendFrom(config, ExtendsPath(tsConfigPath))

MergedConfig(tsConfigPath) ==
    IF ~IsFile(tsConfigPath) \/ ~Entry(tsConfigPath).readable THEN ConfigThrows
    ELSE IF ~IsJson(Entry(tsConfigPath)) THEN ConfigThrows
    ELSE ConfigOf(tsConfigPath, ConfigAt(tsConfigPath))

resolveTsConfig(tsConfigPath) ==
    IF NeverEnds(tsConfigPath, {}) THEN ConfigPending ELSE MergedConfig(tsConfigPath)

\* The matcher for the merged document tsConfigContent of a tsconfig in the
\* directory tsConfigDir, without regard to whether loading threw.
LenientMatcherOf(tsConfigContent, tsConfigDir) ==
    [defined |-> TRUE,
     baseUrl |-> resolve(tsConfigDir, IF tsConfigContent.baseUrl = "" THEN "."
                                      ELSE tsConfigContent.baseUrl),
     paths   |-> tsConfigContent.paths]

\* A preprocessing that, when the document cannot be loaded, still builds a
\* matcher: no patterns, baseUrl the directory of the document.
LoadMatcherLenient ==
    IF options.tsConfig = "" THEN NoMatcher
    ELSE LenientMatcherOf(resolveTsConfig(options.tsConfig), dirname(options.tsConfig))

\* createMatchPath(absoluteBaseUrl, paths) for the merged document
\* tsConfigContent of a tsconfig in the directory tsConfigDir; no matcher
\* when loading threw.
MatcherOf(tsConfigContent, tsConfigDir) ==
    IF ~tsConfigContent.ok THEN NoMatcher
    ELSE [defined |-> TRUE,
          baseUrl |-> resolve(tsConfigDir, IF tsConfigContent.baseUrl = "" THEN "."
                                           ELSE tsConfigContent.baseUrl),
          paths   |-> tsConfigContent.paths]

\* The tsconfig preprocessing of buildDependencyGraph: tsMatchPath stays
\* undefined without options.tsConfig or when loading throws (a warning).
LoadMatcher ==
    IF options.tsConfig = "" THEN NoMatcher
    ELSE MatcherOf(resolveTsConfig(options.tsConfig), dirname(options.tsConfig))

\* A resolver without package suppression: a bare specifier is its own name
\* whatever includeNpm says.
ResolveKeepingNames(source, currentDir) ==
    IF ~StartsWith(source, ".") /\ ~isAbsolute(source) THEN source
    ELSE IF isAbsolute(source)
         THEN resolveFileWithExtensions(source, options.fileExtensions)
         ELSE resolveFileWithExtensions(resolve(currentDir, source), options.fileExtensions)

\* A resolver that takes every specifier that is not absolute as a path
\* relative to the importing file's directory.
ResolveAsRelative(source, currentDir) ==
    IF isAbsolute(source)
    THEN resolveFileWithExtensions(source, options.fileExtensions)
    ELSE resolveFileWithExtensions(resolve(currentDir, source), options.fileExtensions)

\* A resolver that resolves a relative specifier against baseDir instead of
\* the importing file's directory, and knows no packages or aliases.
ResolveAgainstBaseDir(source, currentDir) ==
    IF isAbsolute(source)
    THEN resolveFileWithExtensions(source, options.fileExtensions)
    ELSE IF StartsWith(source, ".")
         THEN resolveFileWithExtensions(resolve(options.baseDir, source), options.fileExtensions)
         ELSE ""

\* A resolver that tests includeNpm before the shape of the specifier.
ResolvePackagesFirst(source, currentDir) ==
    IF options.includeNpm THEN source
    ELSE IF isAbsolute(source)
         THEN resolveFileWithExtensions(source, options.fileExtensions)
         ELSE IF StartsWith(source, ".")
              THEN resolveFileWithExtensions(resolve(currentDir, source), options.fileExtensions)
              ELSE ""

\* Steps 3 and 4 of resolveDependencyPath: an absolute path is probed as it
\* is, a relative one after path.resolve(currentDir, source); every other
\* specifier reaches the final return null.
ProbePath(source, currentDir) ==
    IF isAbsolute(source) \/ StartsWith(source, ".")
    THEN resolveFileWithExtensions(IF isAbsolute(source) THEN source
                                   ELSE resolve(currentDir, source),
                                   options.fileExtensions)
    ELSE ""

\* The alias branch (step 2) for the stripped path the matcher returned.
ProbeAlias(aliasPath) ==
    IF aliasPath # "" THEN resolveFileWithExtensions(aliasPath, options.fileExtensions)
    ELSE ""

\* The decisions of resolveDependencyPath, given aliasPath, the matcher's
\* answer with the configured extensions (lines 148-153 and 175-180),
\* plainMatch, its answer without an extension list (line 163), and byPath,
\* the outcome of steps 3 and 4.
ResolveWith(source, aliasPath, plainMatch, byPath) ==
    LET includeNpm == options.includeNpm
        bare       == ~StartsWith(source, ".") /\ ~isAbsolute(source)
        isAlias    == tsMatchPath.defined /\ aliasPath # ""
    IN  \* 1. package names
        IF includeNpm /\ bare /\ ~isAlias THEN source
        ELSE IF ~includeNpm /\ bare /\ plainMatch = "" THEN ""
        ELSE IF tsMatchPath.defined /\ bare
             THEN IF ProbeAlias(aliasPath) # "" THEN ProbeAlias(aliasPath)
                  ELSE IF ~includeNpm THEN ""
                       ELSE byPath
             ELSE byPath

(***************************************************************************)
(* resolveDependencyPath(source, currentDir): the absolute path of the     *)
(* file source names, the package name itself, or null ("").               *)
(***************************************************************************)
resolveDependencyPath(source, currentDir) ==
    ResolveWith(source, tsMatch(source, DotExts), tsMatch(source, DefaultExts),
                ProbePath(source, currentDir))

\* The references the visitors of traverse(ast, ...) are called for: all of
\* them, or those met before the walk throws; the catch around the walk only
\* warns, and what was added to dependencies stays.
WalkedRefs(file) ==
    IF "met" \in DOMAIN file THEN SubSeq(file.refs, 1, file.met) ELSE file.refs

\* The texts of refs in order of first occurrence (the insertion order of the
\* dependencies Set); handleSource ignores an empty text, and a type-only
\* import declaration is skipped when detectiveOptions.ts.skipTypeImports is set.
RECURSIVE CollectSources(_, _)
CollectSources(refs, acc) ==
    IF refs = <<>> THEN acc
    ELSE LET r    == Head(refs)
             skip == \/ r.text = ""
                     \/ options.skipTypeImports /\ r.kind = "import" /\ r.typeOnly
                     \/ \E i \in 1..Len(acc) : acc[i] = r.text
         IN  CollectSources(Tail(refs), IF skip THEN acc ELSE Append(acc, r.text))

Contains(seq, x) == \E i \in 1..Len(seq) : seq[i] = x

IsSourceFile(absoluteFilePath) ==
    LET e == extname(absoluteFilePath)
    IN  Contains(options.fileExtensions, SubSeq(e, 2, Len(e)))

\* The filter without the exclusion test: only unresolved paths are dropped.
KeepNonNull(resolvedPath) == resolvedPath # ""

\* The filter without the null test: only excluded paths are dropped.
KeepNotExcluded(resolvedPath) == ~Excluded(Rel(resolvedPath))

\* if (!resolvedPath) return false; return !excludeRegExp.some(...)
KeepResolved(resolvedPath) == resolvedPath # "" /\ ~Excluded(Rel(resolvedPath))

(***************************************************************************)
(* Promise.all over the resolutions of a file's specifiers: the            *)
(* resolutions run concurrently and settle in any order.                   *)
(***************************************************************************)
\* The orders in which n concurrent promises may settle: order[k] is the
\* index of the promise that settles k-th.
CompletionOrders(n) ==
    {order \in [1..n -> 1..n] : \A i, j \in 1..n : order[i] = order[j] => i = j}

\* The promises settling in index order.
InOrder(n) == [i \in 1..n |-> i]

\* A collection that appends each value when its promise settles.
CollectAsSettled(values, order) == [k \in 1..Len(values) |-> values[order[k]]]

\* Promise.all: when the promise at index order[k] settles, its value is
\* stored at that index of the result array.
RECURSIVE StoreSettled(_, _, _, _)
StoreSettled(result, values, order, k) ==
    IF k > Len(order) THEN result
    ELSE StoreSettled([result EXCEPT ![order[k]] = values[order[k]]], values, order, k + 1)

PromiseAll(values, order) ==
    StoreSettled([i \in 1..Len(values) |-> ""], values, order, 1)

(***************************************************************************)
(* getDirectDependencies(absoluteFilePath): ok = FALSE when it throws (the *)
(* read or the parse failed), else the resolved, non-excluded dependencies *)
(* in specifier order.  A file whose extension is not a source extension   *)
(* has none and is not read.  settles = FALSE when its promise stays       *)
(* pending: the read never completes.                                      *)
(***************************************************************************)
\* await fsp.readFile(absoluteFilePath) of getDirectDependencies never settles.
NeverSettles(absoluteFilePath) ==
    IsSourceFile(absoluteFilePath) /\ ReadHangs(absoluteFilePath)

getDirectDependencies(absoluteFilePath, order) ==
    LET f        == Entry(absoluteFilePath)
        sources  == CollectSources(WalkedRefs(f), <<>>)
        resolved == PromiseAll([i \in 1..Len(sources) |->
                                   resolveDependencyPath(sources[i], dirname(absoluteFilePath))],
                               order)
    IN  IF ~IsSourceFile(absoluteFilePath)
        THEN [ok |-> TRUE, settles |-> TRUE, deps |-> <<>>]
        ELSE IF NeverSettles(absoluteFilePath)
             THEN [ok |-> FALSE, settles |-> FALSE, deps |-> <<>>]
        ELSE IF ~IsFile(absoluteFilePath) \/ ~f.readable \/ ~f.parses
             THEN [ok |-> FALSE, settles |-> TRUE, deps |-> <<>>]
             ELSE [ok |-> TRUE, settles |-> TRUE, deps |-> SelectSeq(resolved, KeepResolved)]

(***************************************************************************)
(* buildDependencyGraph: its local state, and the bookkeeping of the       *)
(* promises it is waiting for.                                             *)
(*   pc              "entry" (the tsconfig preprocessing), "stat" (the     *)
(*                   call awaits fsp.stat(startPath)), "traversing",       *)
(*                   "returned", "failed" (rejected), or "constructed"     *)
(*                   (depseeker built its result from what was returned)   *)
(*   initialFiles    the seeds                                             *)
(*   visited         absolute paths marked visited                         *)
(*   allFiles        the allFiles Set, in insertion order; from the return *)
(*                   on, the array made of it                              *)
(*   dependencyGraph relative path -> edge list                            *)
(*   status          per visit that went past the visited check:           *)
(*                   "pending" while it awaits getDirectDependencies,      *)
(*                   "settled" once its continuation has run               *)
(*   awaits          per visit, the visits its Promise.all waits for       *)
(* and four counters that only record what happened:                      *)
(*   calls           traverseDependencies invocations per absolute path    *)
(*   reads           readFile calls per absolute path                      *)
(*   writes          assignments dependencyGraph[key] = ... per key        *)
(*   steps           continuations run so far: the one that examines the   *)
(*                   start path, one per settled getDirectDependencies,    *)
(*                   and the return                                        *)
(* and, for a tsconfig whose loading never ends,                           *)
(*   loading         the documents of the resolveTsConfig calls in         *)
(*                   progress, outermost first                             *)
(* and, for a second invocation of buildDependencyGraph running at the     *)
(* same time on the same filesystem and options,                           *)
(*   other           its pc, its start path and its own local state        *)
(***************************************************************************)
VARIABLES pc, initialFiles, visited, allFiles, dependencyGraph, status, awaits,
          calls, reads, writes, steps, loading, other

vars == <<fs, cwd, startPath, options, requireExtensions, format, modulePaths, nodeVersion,
          tsMatchPath, pc, initialFiles, visited,
          allFiles, dependencyGraph, status, awaits, calls, reads, writes, steps,
          loading, other>>

\* The caller of the seed visits: the body of buildDependencyGraph itself.
Top == "<buildDependencyGraph>"

Bump(f, k) == IF k \in DOMAIN f THEN [f EXCEPT ![k] = @ + 1] ELSE f @@ (k :> 1)

Put(f, k, v) == IF k \in DOMAIN f THEN [f EXCEPT ![k] = v] ELSE f @@ (k :> v)

\* Set.prototype.add on an insertion-ordered Set.
SetAdd(seq, x) == IF Contains(seq, x) THEN seq ELSE Append(seq, x)

\* The traversal state as one value, for the synchronous stretches that touch
\* several parts of it.
Locals == [visited |-> visited, allFiles |-> allFiles, graph |-> dependencyGraph,
           status |-> status, awaits |-> awaits,
           calls |-> calls, reads |-> reads, writes |-> writes]

SetLocals(st) ==
    /\ visited' = st.visited
    /\ allFiles' = st.allFiles
    /\ dependencyGraph' = st.graph
    /\ status' = st.status
    /\ awaits' = st.awaits
    /\ calls' = st.calls
    /\ reads' = st.reads
    /\ writes' = st.writes

\* The local state of a call that has just been made: const dependencyGraph
\* = {}, visited = new Set(), allFiles = new Set().
FreshLocals == [visited |-> {}, allFiles |-> <<>>, graph |-> <<>>,
                status |-> <<>>, awaits |-> (Top :> {}),
                calls |-> <<>>, reads |-> <<>>, writes |-> <<>>]

\* No second invocation.
NoOther == [pc |-> "absent", startPath |-> "", st |-> FreshLocals]

\* A visited Set held outside the function: an invocation also sees the
\* files another invocation marked.
SharedVisited(st, foreign) == [st EXCEPT !.visited = @ \cup foreign]

\* The state an invocation works on.  The graph and the two Sets are created
\* inside buildDependencyGraph, so it is the invocation's own state, whatever
\* files (foreign) another invocation has marked visited.
OwnState(st, foreign) == st

\* A write that replaces the graph by the one entry.
WriteOnlyKey(st, key, edges) ==
    [st EXCEPT !.graph = (key :> edges), !.writes = Bump(@, key)]

\* dependencyGraph[key] = edges
WriteGraph(st, key, edges) ==
    [st EXCEPT !.graph = Put(@, key, edges), !.writes = Bump(@, key)]

\* The visited check left out: every call goes on to read the file.
NeverVisited(st, currentAbsolutePath) == FALSE

\* if (visited.has(currentAbsolutePath)) return;
AlreadyVisited(st, currentAbsolutePath) == currentAbsolutePath \in st.visited

\* The mark left to the continuation: the call adds the file to allFiles but
\* not to visited before it suspends.
MarkLate(st, currentAbsolutePath) ==
    [st EXCEPT !.allFiles = SetAdd(@, Rel(currentAbsolutePath))]

\* visited.add(currentAbsolutePath); allFiles.add(currentRelativePath);
MarkVisited(st, currentAbsolutePath) ==
    [st EXCEPT !.visited = @ \cup {currentAbsolutePath},
               !.allFiles = SetAdd(@, Rel(currentAbsolutePath))]

\* A visit that opens every file, whatever its extension.
TraverseReadingAll(st, currentAbsolutePath, caller) ==
    LET called == [st EXCEPT !.calls = Bump(@, currentAbsolutePath)]
        marked == MarkVisited(called, currentAbsolutePath)
        waited == [marked EXCEPT !.awaits = Put(Put(@, currentAbsolutePath, {}), caller,
                                                @[caller] \cup {currentAbsolutePath})]
    IN  IF AlreadyVisited(st, currentAbsolutePath) THEN called
        ELSE [waited EXCEPT !.reads = Bump(@, currentAbsolutePath),
                            !.status = Put(@, currentAbsolutePath, "pending")]

(***************************************************************************)
(* traverseDependencies(currentAbsolutePath), called by caller, up to its  *)
(* first suspension: the visited check and mark, then the start of         *)
(* getDirectDependencies, which either issues readFile and suspends or,    *)
(* for a file that is not a source file, has [] at once; that visit's      *)
(* continuation (an empty edge list, nothing to recurse into) runs before  *)
(* any I/O completes.                                                      *)
(***************************************************************************)
traverseDependencies(st, currentAbsolutePath, caller) ==
    LET called == [st EXCEPT !.calls = Bump(@, currentAbsolutePath)]
        marked == MarkVisited(called, currentAbsolutePath)
        waited == [marked EXCEPT !.awaits = Put(Put(@, currentAbsolutePath, {}), caller,
                                                @[caller] \cup {currentAbsolutePath})]
    IN  IF AlreadyVisited(st, currentAbsolutePath) THEN called
        ELSE IF IsSourceFile(currentAbsolutePath)
             THEN [waited EXCEPT !.reads = Bump(@, currentAbsolutePath),
                                 !.status = Put(@, currentAbsolutePath, "pending")]
             ELSE [WriteGraph(waited, Rel(currentAbsolutePath), <<>>)
                      EXCEPT !.status = Put(@, currentAbsolutePath, "settled")]

\* A dependency that is a package name: includeNpm, no separator, not absolute.
IsPackageName(depAbsPath) ==
    options.includeNpm /\ ~Includes(depAbsPath, sep) /\ ~isAbsolute(depAbsPath)

\* The edge recorded for a dependency.
EdgeOf(depAbsPath) == IF IsPackageName(depAbsPath) THEN depAbsPath ELSE Rel(depAbsPath)

\* A callback that starts no visit.
VisitNothing(st, depAbsPath, caller) == st

\* One callback of directDependencies.map(async (depAbsPath) => ...), up to its
\* first suspension.
VisitDependency(st, depAbsPath, caller) ==
    IF IsPackageName(depAbsPath) THEN [st EXCEPT !.allFiles = SetAdd(@, depAbsPath)]
    ELSE IF ~Excluded(Rel(depAbsPath)) THEN traverseDependencies(st, depAbsPath, caller)
         ELSE st

\* The callbacks run in list order, each up to its first suspension.
RECURSIVE VisitAll(_, _, _)
VisitAll(st, deps, caller) ==
    IF deps = <<>> THEN st
    ELSE VisitAll(VisitDependency(st, Head(deps), caller), Tail(deps), caller)

\* initialFiles.map((file) => traverseDependencies(file))
RECURSIVE StartSeeds(_, _)
StartSeeds(st, files) ==
    IF files = <<>> THEN st
    ELSE StartSeeds(traverseDependencies(st, Head(files), Top), Tail(files))

\* A continuation that records nothing when getDirectDependencies throws.
ContinueDropsFailure(st, currentAbsolutePath, order) ==
    LET r       == getDirectDependencies(currentAbsolutePath, order)
        key     == Rel(currentAbsolutePath)
        edges   == [i \in 1..Len(r.deps) |-> EdgeOf(r.deps[i])]
        settled == [st EXCEPT !.status = Put(@, currentAbsolutePath, "settled")]
    IN  IF ~r.ok THEN settled
        ELSE VisitAll(WriteGraph(settled, key, edges), r.deps, currentAbsolutePath)

\* A continuation whose edge list depends on the traversal so far: it records
\* only the dependencies no visit has reached yet.
ContinueSkippingVisited(st, currentAbsolutePath, order) ==
    LET r       == getDirectDependencies(currentAbsolutePath, order)
        key     == Rel(currentAbsolutePath)
        fresh   == SelectSeq(r.deps, LAMBDA d : d \notin st.visited)
        edges   == [i \in 1..Len(fresh) |-> EdgeOf(fresh[i])]
        settled == [st EXCEPT !.status = Put(@, currentAbsolutePath, "settled")]
    IN  IF ~r.ok THEN WriteGraph(settled, key, <<>>)
        ELSE VisitAll(WriteGraph(settled, key, edges), r.deps, currentAbsolutePath)

\* The continuation for the outcome r of getDirectDependencies, recorded
\* under key.
Record(st, currentAbsolutePath, r, key) ==
    IF ~r.ok THEN WriteGraph(st, key, <<>>)
    ELSE VisitAll(WriteGraph(st, key, [i \in 1..Len(r.deps) |-> EdgeOf(r.deps[i])]),
                  r.deps, currentAbsolutePath)

ContinueWith(st, currentAbsolutePath, r) ==
    Record([st EXCEPT !.status = Put(@, currentAbsolutePath, "settled")],
           currentAbsolutePath, r, Rel(currentAbsolutePath))

\* The continuation of a visit after getDirectDependencies settled: on a throw
\* the empty list is recorded and the visit ends; otherwise the edge list is
\* recorded and every dependency's callback is started.
Continue(st, currentAbsolutePath, order) ==
    ContinueWith(st, currentAbsolutePath, getDirectDependencies(currentAbsolutePath, order))

\* The promise of the visit of p is fulfilled: its continuation has run and
\* every visit its Promise.all waits for is fulfilled.
\* A promise that does not wait for the visits of the dependencies.
FulfilledAlone(p) == status[p] = "settled"

RECURSIVE Fulfilled(_)
Fulfilled(p) ==
    /\ status[p] = "settled"
    /\ \A c \in awaits[p] : Fulfilled(c)

\* Promise.all over the seed visits is fulfilled.
AllSeedsFulfilled == \A c \in awaits[Top] : Fulfilled(c)

(***************************************************************************)
(* The start path.                                                         *)
(***************************************************************************)
HasSourceExtension(filePath) ==
    \E i \in 1..Len(options.fileExtensions) :
        EndsWith(filePath, "." \o options.fileExtensions[i])

\* The working directory and the directories above it, but for the root.
WorkingDirs ==
    LET segs == NormalizeSegs(Segments(cwd), <<>>, TRUE)
    IN  {sep \o JoinSegs(SubSeq(segs, 1, i)) : i \in 1..Len(segs)}

\* The entries of the directory dir, in the order the file system lists
\* them, taken to be the order of their names.
RECURSIVE ByName(_)
ByName(S) ==
    IF S = {} THEN <<>>
    ELSE LET first == CHOOSE x \in S : \A y \in S \ {x} : ~Before(y, x)
         IN  <<first>> \o ByName(S \ {first})

Listing(dir) == ByName({q \in DOMAIN fs \cup WorkingDirs : q # dir /\ dirname(q) = dir})

IsDirEntry(q) == DirectoryAt(q)

\* readdir with recursive: the directory taken last from the queue is
\* listed, and the directories among its entries join the queue.
RECURSIVE ReadQueue(_)
ReadQueue(queue) ==
    IF queue = <<>> THEN <<>>
    ELSE LET entries == Listing(queue[Len(queue)])
         IN  entries \o ReadQueue(SubSeq(queue, 1, Len(queue) - 1)
                                  \o SelectSeq(entries, IsDirEntry))

\* path.join(dirent.path, dirent.name) of the entry at the key q below the
\* directory at the key root, which was opened as start.
EntryPath(start, root, q) ==
    join(start, SubSeq(q, Len(root) + (IF root = sep THEN 1 ELSE 2), Len(q)))

EntryPaths(start, root, keys) ==
    [i \in 1..Len(keys) |-> EntryPath(start, root, keys[i])]

\* fsp.readdir(start, {withFileTypes: true, recursive: true}), each entry as
\* path.join(dirent.path, dirent.name).
ReadDir(start) == EntryPaths(start, RealPath(start), ReadQueue(<<RealPath(start)>>))

\* filePath is a path of the file system below the start path.
IsUnderStart(filePath) == filePath \in DOMAIN fs /\ StartsWith(filePath, startPath \o sep)

\* The seed test without the exclusion filter.
SeedUnfiltered(filePath) == IsFile(filePath) /\ HasSourceExtension(filePath)

IsSeed(filePath) ==
    IsFile(filePath) /\ HasSourceExtension(filePath) /\ ~Excluded(Rel(filePath))

\* The entry handling without the stat rejection and the final else branch.
StartPathThrowsNoStat == IsFile(startPath) /\ ~HasSourceExtension(startPath)

\* The entry handling without the extension check of an entry file.
StartPathThrowsNoExt ==
    \/ ~Exists(startPath)
    \/ ~IsFile(startPath) /\ ~IsDirectory(startPath)

\* An entry handling that also throws when the tsconfig cannot be loaded.
StartPathThrowsOnConfig ==
    \/ ~Exists(startPath)
    \/ IsFile(startPath) /\ ~HasSourceExtension(startPath)
    \/ ~IsFile(startPath) /\ ~IsDirectory(startPath)
    \/ options.tsConfig # "" /\ ~resolveTsConfig(options.tsConfig).ok

\* The try block around the start path start throws: stat rejects, the
\* entry file has no source extension, or the path is neither a file nor a
\* directory.
EntryThrows(start) ==
    \/ ~Exists(start)
    \/ IsFile(start) /\ ~HasSourceExtension(start)
    \/ ~IsFile(start) /\ ~IsDirectory(start)

\* initialFiles once the start path start has been examined without a
\* throw: the seeds among the entries of a directory, or the file itself
\* unless it is excluded.
EntrySeeds(start) ==
    IF IsDirectory(start) THEN SelectSeq(ReadDir(start), IsSeed)
    ELSE IF Excluded(Rel(start)) THEN <<>> ELSE <<start>>

\* The start path makes the call throw.
StartPathThrows == EntryThrows(startPath)

\* initialFiles of the call.
SeedsOfStartPath == EntrySeeds(startPath)

(***************************************************************************)
(* Actions.                                                                *)
(***************************************************************************)
\* The most resolveTsConfig calls in progress that are followed.
MaxDepth == 3

\* await resolveTsConfig(options.tsConfig) never settles.
ConfigDiverges == options.tsConfig # "" /\ NeverEnds(options.tsConfig, {})

\* One more call of resolveTsConfig where the await never settles: the
\* document of the call before it was read and parsed, its extends was
\* located, and that call awaits this one.  buildDependencyGraph stays in
\* its await.
ConfigRecurses ==
    /\ pc = "entry"
    /\ ConfigDiverges
    /\ Len(loading) < MaxDepth
    /\ IF loading = <<>> THEN TRUE
       ELSE /\ ~ReadHangs(loading[Len(loading)])
            /\ ExtendsPath(loading[Len(loading)]) # Never
    /\ loading' = Append(loading, IF loading = <<>> THEN options.tsConfig
                                  ELSE ExtendsPath(loading[Len(loading)]))
    /\ UNCHANGED <<inputs, tsMatchPath, pc, initialFiles, visited, allFiles,
                   dependencyGraph, status, awaits, calls, reads, writes, steps,
                   other>>

\* The tsconfig preprocessing is over: tsMatchPath is assigned, or stays
\* undefined without options.tsConfig or after the warning of a load that
\* threw, and the call awaits fsp.stat(startPath).
ConfigSettles ==
    /\ pc = "entry"
    /\ ~ConfigDiverges
    /\ tsMatchPath' = LoadMatcher
    /\ pc' = "stat"
    /\ UNCHANGED <<inputs, initialFiles, visited, allFiles,
                   dependencyGraph, status, awaits, calls, reads, writes, steps,
                   loading, other>>

\* The try block around the start path throws: the call rejects.
EntryFails ==
    /\ pc = "stat"
    /\ StartPathThrows
    /\ pc' = "failed"
    /\ steps' = steps + 1
    /\ UNCHANGED <<inputs, tsMatchPath, initialFiles, visited, allFiles,
                   dependencyGraph, status, awaits, calls, reads, writes, loading,
                   other>>

\* The start path is accepted: the seeds are collected and every seed's
\* visit is started, in order, before the first suspension of a visit.
EntryStarts ==
    /\ pc = "stat"
    /\ ~StartPathThrows
    /\ initialFiles' = SeedsOfStartPath
    /\ SetLocals(StartSeeds(OwnState(Locals, other.st.visited), SeedsOfStartPath))
    /\ pc' = "traversing"
    /\ steps' = steps + 1
    /\ UNCHANGED <<inputs, tsMatchPath, loading, other>>

\* The number of resolutions getDirectDependencies(p) starts: one per
\* collected specifier of a file it read and parsed.
Resolutions(p) ==
    IF IsSourceFile(p) /\ IsFile(p) /\ Entry(p).readable /\ Entry(p).parses
    THEN Len(CollectSources(WalkedRefs(Entry(p)), <<>>))
    ELSE 0

\* getDirectDependencies of a suspended visit settles, its resolutions having
\* settled in some order, and the visit continues.
Settle(p) ==
    /\ pc = "traversing"
    /\ status[p] = "pending"
    /\ ~NeverSettles(p)
    /\ \E order \in CompletionOrders(Resolutions(p)) :
           SetLocals(Continue(OwnState(Locals, other.st.visited), p, order))
    /\ steps' = steps + 1
    /\ UNCHANGED <<inputs, tsMatchPath, pc, initialFiles, loading, other>>

\* await Promise.all(initialFiles.map(...)) is over: the call returns
\* {graph: dependencyGraph, files: Array.from(allFiles)}.
Return ==
    /\ pc = "traversing"
    /\ AllSeedsFulfilled
    /\ pc' = "returned"
    /\ steps' = steps + 1
    /\ UNCHANGED <<inputs, tsMatchPath, initialFiles, visited, allFiles,
                   dependencyGraph, status, awaits, calls, reads, writes, loading,
                   other>>

(***************************************************************************)
(* The public entry (src/src/index.ts): depseeker() awaits                 *)
(* buildDependencyGraph and hands the array it returned to                 *)
(* new DepSeekerResult(files, graph), whose constructor keeps              *)
(* files.sort(): that very array is sorted in place, by the UTF-16 code    *)
(* units of its strings, and getFiles() returns it.  A caller of           *)
(* buildDependencyGraph itself has the array as Return left it.            *)
(***************************************************************************)
\* files.sort()
RECURSIVE sort(_)
sort(files) ==
    IF files = <<>> THEN <<>>
    ELSE LET sorted == sort(SubSeq(files, 1, Len(files) - 1))
             x      == files[Len(files)]
             k      == Cardinality({i \in 1..Len(sorted) : ~Before(x, sorted[i])})
         IN  SubSeq(sorted, 1, k) \o <<x>> \o SubSeq(sorted, k + 1, Len(sorted))

DepSeekerResult ==
    /\ pc = "returned"
    /\ pc' = "constructed"
    /\ allFiles' = sort(allFiles)
    /\ UNCHANGED <<inputs, tsMatchPath, initialFiles, visited, dependencyGraph, status,
                   awaits, calls, reads, writes, steps, loading, other>>

\* getFiles() of the result, once it is constructed.
getFiles == IF pc = "constructed" THEN allFiles ELSE <<>>

(***************************************************************************)
(* The second invocation: the same function with the same options on its   *)
(* own local state and its own start path.  It is followed for options     *)
(* without tsConfig, where the tsconfig preprocessing is skipped and the    *)
(* call goes straight to the stat of its start path.                       *)
(***************************************************************************)
\* initialFiles of the second invocation.
OtherSeeds == EntrySeeds(other.startPath)

\* The promise of the visit of p in the traversal state st is fulfilled.
RECURSIVE FulfilledIn(_, _)
FulfilledIn(st, p) ==
    /\ st.status[p] = "settled"
    /\ \A c \in st.awaits[p] : FulfilledIn(st, c)

\* The try block around the start path of the second invocation throws: the
\* call rejects.
OtherFails ==
    /\ other.pc = "entry"
    /\ options.tsConfig = ""
    /\ EntryThrows(other.startPath)
    /\ other' = [other EXCEPT !.pc = "failed"]
    /\ UNCHANGED <<inputs, tsMatchPath, pc, initialFiles, visited, allFiles,
                   dependencyGraph, status, awaits, calls, reads, writes, steps, loading>>

\* The start path of the second invocation is accepted: its seeds are
\* collected and every seed's visit is started.
OtherStarts ==
    /\ other.pc = "entry"
    /\ options.tsConfig = ""
    /\ ~EntryThrows(other.startPath)
    /\ other' = [other EXCEPT !.pc = "traversing",
                              !.st = StartSeeds(OwnState(other.st, visited), OtherSeeds)]
    /\ UNCHANGED <<inputs, tsMatchPath, pc, initialFiles, visited, allFiles,
                   dependencyGraph, status, awaits, calls, reads, writes, steps, loading>>

OtherSettles(p) ==
    /\ other.pc = "traversing"
    /\ other.st.status[p] = "pending"
    /\ ~NeverSettles(p)
    /\ \E order \in CompletionOrders(Resolutions(p)) :
           other' = [other EXCEPT !.st = Continue(OwnState(other.st, visited), p, order)]
    /\ UNCHANGED <<inputs, tsMatchPath, pc, initialFiles, visited, allFiles,
                   dependencyGraph, status, awaits, calls, reads, writes, steps, loading>>

OtherReturns ==
    /\ other.pc = "traversing"
    /\ \A c \in other.st.awaits[Top] : FulfilledIn(other.st, c)
    /\ other' = [other EXCEPT !.pc = "returned"]
    /\ UNCHANGED <<inputs, tsMatchPath, pc, initialFiles, visited, allFiles,
                   dependencyGraph, status, awaits, calls, reads, writes, steps, loading>>

\* The steps of two invocations running at the same time.
PairNext ==
    \/ ConfigSettles
    \/ EntryStarts
    \/ \E p \in DOMAIN status : Settle(p)
    \/ Return
    \/ OtherFails
    \/ OtherStarts
    \/ \E p \in DOMAIN other.st.status : OtherSettles(p)
    \/ OtherReturns

Next ==
    \/ ConfigRecurses
    \/ ConfigSettles
    \/ EntryFails
    \/ EntryStarts
    \/ \E p \in DOMAIN status : Settle(p)
    \/ Return
    \/ DepSeekerResult

(***************************************************************************)
(* Initial states: a project /p whose files a.ts .. d.ts import each       *)
(* other, a directory t that an exclusion filter may cover, a file that    *)
(* is not a source file and a FIFO; one file may be unreadable or          *)
(* unparsable; the start path is a file, the directory, or invalid.        *)
(***************************************************************************)
\* Object.keys(require.extensions) of a plain Node process, and of one with a
\* TypeScript loader registered.
NodeExtensions == <<".js", ".json", ".node">>

LoaderExtensions == <<".js", ".json", ".node", ".ts">>

\* The global folders of a process with HOME=/home, node installed under
\* /usr, and no NODE_PATH.
GlobalFolders == <<"/home/.node_modules", "/home/.node_libraries", "/usr/lib/node">>

\* The longest specifier list of a.ts.
MaxRefs == 2

BoundedSeq(S, n) == UNION {[1..k -> S] : k \in 0..n}

RefsA == BoundedSeq({Imp("./b"), Imp("./c"), Imp("./t/x")}, MaxRefs)

RefsB == {<<>>, <<Imp("./a")>>, <<Imp("./d")>>}

RefsC == {<<>>, <<Imp("./d")>>}

RefsD == {<<>>, <<Imp("./a")>>}

\* The file that cannot be read or parsed, if any.
NoFault == [path |-> "", as |-> File(<<>>)]

Faults == {NoFault,
           [path |-> "/p/a.ts", as |-> Unreadable],
           [path |-> "/p/b.ts", as |-> Unreadable],
           [path |-> "/p/b.ts", as |-> Unparsable],
           [path |-> "/p/d.ts", as |-> Unparsable]}

Tree(a, b, c, d) ==
    ("/p" :> Dir) @@ ("/p/a.ts" :> File(a)) @@ ("/p/b.ts" :> File(b))
    @@ ("/p/c.ts" :> File(c)) @@ ("/p/d.ts" :> File(d))
    @@ ("/p/n.json" :> File(<<>>)) @@ ("/p/pipe" :> Other)
    @@ ("/p/t" :> Dir) @@ ("/p/t/x.ts" :> File(<<Imp("../d")>>))

WithFault(tree, fault) ==
    IF fault.path = "" THEN tree ELSE [tree EXCEPT ![fault.path] = fault.as]

\* Start paths the call accepts: a file, the project directory, a file under t.
ValidStartPaths == {"/p/a.ts", "/p", "/p/t/x.ts"}

\* Start paths that throw: missing, a FIFO, a file without a source extension.
InvalidStartPaths == {"/p/gone.ts", "/p/pipe", "/p/n.json"}

ExcludeLists == {<<>>, <<[kind |-> "contains", text |-> "t/"]>>}

\* Every project, started at a valid path.
InitProjects ==
    /\ \E a \in RefsA, b \in RefsB, c \in RefsC, d \in RefsD, fault \in Faults :
           fs = WithFault(Tree(a, b, c, d), fault)
    /\ startPath \in ValidStartPaths

\* A start path that throws; no file is ever opened, so one shape of b, c and d
\* stands for all.
InitInvalid ==
    /\ \E a \in RefsA : fs = Tree(a, <<Imp("./d")>>, <<Imp("./d")>>, <<>>)
    /\ startPath \in InvalidStartPaths

\* tsconfig documents whose extends chain is cyclic: a document that extends
\* itself, and two documents that extend each other.
CyclicConfigs ==
    {"/p/tsconfig.json" :> Json(Doc("./tsconfig.json", ".", <<>>)),
     ("/p/tsconfig.json" :> Json(Doc("./base.json", ".", <<>>)))
         @@ ("/p/base.json" :> Json(Doc("./tsconfig.json", "", <<>>)))}

\* A project whose tsconfig has a cyclic extends chain.
InitCyclic ==
    /\ \E a \in RefsA, config \in CyclicConfigs :
           fs = Tree(a, <<>>, <<>>, <<>>) @@ config
    /\ startPath = "/p/a.ts"
    /\ options = [baseDir |-> "/p", fileExtensions |-> <<"ts">>,
                  includeNpm |-> FALSE, excludeRegExp |-> <<>>,
                  skipTypeImports |-> FALSE, tsConfig |-> "/p/tsconfig.json"]

\* A project whose tsconfig cannot be loaded (missing, not JSON, extending a
\* missing document), with a file that cannot be read or parsed and a
\* specifier that resolves to nothing.
InitDegraded ==
    /\ \E a \in {<<Imp("./b"), Imp("./c")>>, <<Imp("./b"), Imp("./missing")>>},
          fault \in Faults,
          config \in {<<>>,
                      "/p/tsconfig.json" :> File(<<>>),
                      "/p/tsconfig.json" :> Json(Doc("./base.json", "", <<>>))} :
           fs = WithFault(Tree(a, <<Imp("./d")>>, <<Imp("./d")>>, <<>>), fault) @@ config
    /\ startPath = "/p/a.ts"
    /\ options = [baseDir |-> "/p", fileExtensions |-> <<"ts">>,
                  includeNpm |-> FALSE, excludeRegExp |-> <<>>,
                  skipTypeImports |-> FALSE, tsConfig |-> "/p/tsconfig.json"]

Init ==
    /\ \/ /\ InitProjects \/ InitInvalid
          /\ \E ex \in ExcludeLists :
                 options = [baseDir |-> "/p", fileExtensions |-> <<"ts">>,
                            includeNpm |-> FALSE, excludeRegExp |-> ex,
                            skipTypeImports |-> FALSE, tsConfig |-> ""]
       \/ InitCyclic
       \/ InitDegraded
    /\ cwd = "/w"
    /\ requireExtensions = NodeExtensions
    /\ format = "cjs"
    /\ modulePaths = GlobalFolders
    /\ nodeVersion = 22
    /\ tsMatchPath = NoMatcher
    /\ pc = "entry"
    /\ initialFiles = <<>>
    /\ visited = {}
    /\ allFiles = <<>>
    /\ dependencyGraph = <<>>
    /\ status = <<>>
    /\ awaits = (Top :> {})
    /\ calls = <<>>
    /\ reads = <<>>
    /\ writes = <<>>
    /\ steps = 0
    /\ loading = <<>>
    /\ other = NoOther

Spec == Init /\ [][Next]_vars

(***************************************************************************)
(* A second family of initial states, for the resolver and the prober: a   *)
(* project /p with one entry file src/app.ts whose specifiers are drawn    *)
(* from a pool that covers every branch of resolveDependencyPath and of    *)
(* resolveFileWithExtensions, a file outside baseDir, and a tsconfig that  *)
(* is absent, broken somewhere along its extends chain, or declares the    *)
(* alias @/* -> src/* (itself or through the document it extends).         *)
(***************************************************************************)
\* The longest specifier list of src/app.ts.
MaxSpecifiers == 1

SpecifierPool ==
    {"./util", "./util.ts", "./widgets", "./gone", "../../o/out", "/o/out",
     "react", "@scope/pkg", "@/util", "@/only", "@/gone", "src/util",
     "./pkgdir", "./odd", "./util.js"}

RefsApp == BoundedSeq({Imp(text) : text \in SpecifierPool}, MaxSpecifiers)

\* src holds util.ts next to util.js and util.ts.ts, a directory widgets
\* with index files next to a file widgets.ts, only.ts, which has no
\* namesake with another extension, a directory named @ with gone.ts,
\* which the alias @/* -> src/* does not reach, a directory pkgdir whose
\* index.ts is itself a directory, and a directory named odd.ts.
ResolveTree(app) ==
    ("/p" :> Dir) @@ ("/p/src" :> Dir) @@ ("/p/src/app.ts" :> File(app))
    @@ ("/p/src/util.ts" :> File(<<>>)) @@ ("/p/src/util.js" :> File(<<>>))
    @@ ("/p/src/util.ts.ts" :> File(<<>>)) @@ ("/p/src/only.ts" :> File(<<>>))
    @@ ("/p/src/widgets" :> Dir) @@ ("/p/src/widgets/index.ts" :> File(<<>>))
    @@ ("/p/src/widgets/index.js" :> File(<<>>)) @@ ("/p/src/widgets.ts" :> File(<<>>))
    @@ ("/p/src/@" :> Dir) @@ ("/p/src/@/gone.ts" :> File(<<>>))
    @@ ("/p/src/pkgdir" :> Dir) @@ ("/p/src/pkgdir/index.ts" :> Dir)
    @@ ("/p/src/odd.ts" :> Dir)
    @@ ("/o" :> Dir) @@ ("/o/out.ts" :> File(<<>>))

AliasDoc == Doc("", ".", <<Rule("@/*", <<"src/*">>)>>)

\* Documents under which loading the tsconfig throws: nothing at the path, a
\* file that cannot be read, a file that is not JSON, and a document whose
\* extends names a missing, an unreadable or a non-JSON document.
BrokenConfigs ==
    {<<>>,
     "/p/tsconfig.json" :> Unreadable,
     "/p/tsconfig.json" :> File(<<>>),
     "/p/tsconfig.json" :> Json(Doc("./base.json", "", <<>>)),
     ("/p/tsconfig.json" :> Json(Doc("./base.json", "", <<>>)))
         @@ ("/p/base.json" :> Unreadable),
     ("/p/tsconfig.json" :> Json(Doc("./base.json", "", <<>>)))
         @@ ("/p/base.json" :> File(<<>>))}

\* Documents that load: the alias declared directly, or inherited.
GoodConfigs ==
    {"/p/tsconfig.json" :> Json(AliasDoc),
     ("/p/tsconfig.json" :> Json(Doc("./base.json", "", <<>>)))
         @@ ("/p/base.json" :> Json(AliasDoc))}

ExtensionLists == {<<"ts">>, <<"ts", "js">>, <<"js", "ts">>}

ResolveOptions(fileExtensions, includeNpm, tsConfig) ==
    [baseDir |-> "/p", fileExtensions |-> fileExtensions, includeNpm |-> includeNpm,
     excludeRegExp |-> <<>>, skipTypeImports |-> FALSE, tsConfig |-> tsConfig]

\* No tsconfig: every extension list.
InitProbing ==
    /\ \E app \in RefsApp : fs = ResolveTree(app)
    /\ \E e \in ExtensionLists, npm \in BOOLEAN : options = ResolveOptions(e, npm, "")
    /\ requireExtensions = NodeExtensions
    /\ format = "cjs"
    /\ modulePaths = GlobalFolders
    /\ nodeVersion = 22
    /\ startPath = "/p/src/app.ts"

\* A tsconfig that cannot be loaded.
InitBrokenConfig ==
    /\ \E app \in RefsApp, config \in BrokenConfigs : fs = ResolveTree(app) @@ config
    /\ \E npm \in BOOLEAN : options = ResolveOptions(<<"ts">>, npm, "/p/tsconfig.json")
    /\ requireExtensions = NodeExtensions
    /\ format = "cjs"
    /\ modulePaths = GlobalFolders
    /\ nodeVersion = 22
    /\ startPath = "/p/src/app.ts"

\* A tsconfig that declares the alias, under either extension list of the process.
InitAlias ==
    /\ \E app \in RefsApp, config \in GoodConfigs : fs = ResolveTree(app) @@ config
    /\ \E npm \in BOOLEAN : options = ResolveOptions(<<"ts">>, npm, "/p/tsconfig.json")
    /\ requireExtensions \in {NodeExtensions, LoaderExtensions}
    /\ format = "cjs"
    /\ modulePaths = GlobalFolders
    /\ nodeVersion = 22
    /\ startPath = "/p/src/app.ts"

\* A tsconfig whose extends chain is cyclic.
InitLooping ==
    /\ \E app \in RefsApp, config \in CyclicConfigs : fs = ResolveTree(app) @@ config
    /\ \E npm \in BOOLEAN : options = ResolveOptions(<<"ts">>, npm, "/p/tsconfig.json")
    /\ requireExtensions = NodeExtensions
    /\ format = "cjs"
    /\ modulePaths = GlobalFolders
    /\ nodeVersion = 22
    /\ startPath = "/p/src/app.ts"

\* A start path that throws, after a tsconfig that cannot be loaded.
InitRejected ==
    /\ fs = ResolveTree(<<>>)
    /\ options = ResolveOptions(<<"ts">>, FALSE, "/p/tsconfig.json")
    /\ requireExtensions = NodeExtensions
    /\ format = "cjs"
    /\ modulePaths = GlobalFolders
    /\ nodeVersion = 22
    /\ startPath = "/p/src/gone.ts"

ResolveInit ==
    /\ InitProbing \/ InitBrokenConfig \/ InitAlias \/ InitLooping \/ InitRejected
    /\ cwd = "/w"
    /\ tsMatchPath = NoMatcher
    /\ pc = "entry"
    /\ initialFiles = <<>>
    /\ visited = {}
    /\ allFiles = <<>>
    /\ dependencyGraph = <<>>
    /\ status = <<>>
    /\ awaits = (Top :> {})
    /\ calls = <<>>
    /\ reads = <<>>
    /\ writes = <<>>
    /\ steps = 0
    /\ loading = <<>>
    /\ other = NoOther

ResolveSpec == ResolveInit /\ [][Next]_vars

(***************************************************************************)
(* Initial states for the tsconfig loader: the tsconfig /p/tsconfig.json   *)
(* extends /p/cfg/base.json, a document in another directory, which may    *)
(* extend /p/cfg/root.json in turn; every document may declare a baseUrl   *)
(* and rules for the patterns @/* and #/*.  util.ts exists under src and   *)
(* lib, both in /p and in /p/cfg, so that the directory a baseUrl is       *)
(* resolved against and the candidate list used both show in the edge.     *)
(***************************************************************************)
ConfigTree(app) ==
    ("/p" :> Dir) @@ ("/p/src" :> Dir) @@ ("/p/src/app.ts" :> File(app))
    @@ ("/p/src/util.ts" :> File(<<>>))
    @@ ("/p/lib" :> Dir) @@ ("/p/lib/util.ts" :> File(<<>>))
    @@ ("/p/cfg" :> Dir)
    @@ ("/p/cfg/src" :> Dir) @@ ("/p/cfg/src/util.ts" :> File(<<>>))
    @@ ("/p/cfg/lib" :> Dir) @@ ("/p/cfg/lib/util.ts" :> File(<<>>))

RefsConfigApp == BoundedSeq({Imp("@/util"), Imp("#/util")}, MaxSpecifiers)

AtSrc == Rule("@/*", <<"src/*">>)

AtLib == Rule("@/*", <<"lib/*">>)

HashLib == Rule("#/*", <<"lib/*">>)

PathsPool == {<<>>, <<AtSrc>>, <<AtLib>>, <<HashLib>>, <<AtLib, HashLib>>}

BaseUrlPool == {"", "."}

\* The tsconfig and the document it extends.
TwoDocuments ==
    {("/p/tsconfig.json" :> Json(Doc("./cfg/base.json", childUrl, childPaths)))
         @@ ("/p/cfg/base.json" :> Json(Doc("", baseUrl, basePaths))) :
     childUrl \in BaseUrlPool, childPaths \in PathsPool,
     baseUrl \in BaseUrlPool, basePaths \in PathsPool}

\* A chain of three documents; only the last may declare a baseUrl.
ThreeDocuments ==
    {("/p/tsconfig.json" :> Json(Doc("./cfg/base.json", "", childPaths)))
         @@ ("/p/cfg/base.json" :> Json(Doc("./root.json", "", basePaths)))
         @@ ("/p/cfg/root.json" :> Json(Doc("", rootUrl, rootPaths))) :
     childPaths \in {<<>>, <<AtLib>>},
     basePaths \in {<<>>, <<AtSrc>>, <<HashLib>>},
     rootUrl \in BaseUrlPool,
     rootPaths \in {<<AtSrc>>, <<HashLib>>, <<AtLib, HashLib>>}}

\* The tsconfig declares a baseUrl of "" and extends a document with one.
EmptyBaseUrlDocuments ==
    {("/p/tsconfig.json" :> Json(DocEmptyBaseUrl("./cfg/base.json", childPaths)))
         @@ ("/p/cfg/base.json" :> Json(Doc("", ".", <<AtSrc>>))) :
     childPaths \in {<<>>, <<AtLib>>}}

\* The tsconfig extends the document of a package under node_modules, named
\* by the package (whose main it is), by a path into it, or by the absolute
\* path of its directory.
PackagedDocuments ==
    {("/p/tsconfig.json" :> Json(Doc(extends, "", childPaths)))
         @@ ("/p/node_modules" :> Dir) @@ ("/p/node_modules/cfg" :> Dir)
         @@ ("/p/node_modules/cfg/package.json" :> Package("./base.json"))
         @@ ("/p/node_modules/cfg/base.json" :> Json(Doc("", ".", basePaths))) :
     extends \in {"cfg", "cfg/base.json", "/p/node_modules/cfg"},
     childPaths \in {<<>>, <<AtLib>>},
     basePaths \in {<<AtSrc>>, <<HashLib>>}}

\* The tsconfig is, or extends, a JSON document without tsconfig fields: the
\* package.json of a package.
PlainJsonDocuments ==
    {"/p/tsconfig.json" :> Package("./index.js")}
    \cup {("/p/tsconfig.json" :> Json(Doc("./node_modules/cfg/package.json", ".", childPaths)))
              @@ ("/p/node_modules" :> Dir) @@ ("/p/node_modules/cfg" :> Dir)
              @@ ("/p/node_modules/cfg/package.json" :> Package("./base.json")) :
          childPaths \in {<<>>, <<AtLib>>}}

\* The tsconfig extends the document of a package that is in no node_modules
\* directory on the way up from /p: it is in a global folder, /lib (an entry
\* of NODE_PATH) or $HOME/.node_modules.
GlobalDocuments ==
    {("/p/tsconfig.json" :> Json(Doc(extends, "", childPaths)))
         @@ (folder :> Dir) @@ (Below(folder, "cfg") :> Dir)
         @@ (Below(folder, "cfg/package.json") :> Package("./base.json"))
         @@ (Below(folder, "cfg/base.json") :> Json(Doc("", ".", <<AtSrc>>)))
         @@ ("/home" :> Dir) :
     extends \in {"cfg", "cfg/base.json"},
     childPaths \in {<<>>, <<AtLib>>},
     folder \in {"/lib", "/home/.node_modules", "/opt"}}

\* The tsconfig extends the document of a package under node_modules whose
\* package.json is a FIFO.
BlockedDocuments ==
    {("/p/tsconfig.json" :> Json(Doc(extends, "", <<AtLib>>)))
         @@ ("/p/node_modules" :> Dir) @@ ("/p/node_modules/cfg" :> Dir)
         @@ ("/p/node_modules/cfg/package.json" :> Other)
         @@ ("/p/node_modules/cfg/base.json" :> Json(Doc("", ".", <<AtSrc>>))) :
     extends \in {"cfg", "cfg/base.json", "/p/node_modules/cfg"}}

\* The tsconfig extends a name that the Node of some release lines takes as
\* a builtin module and that of the others looks up under node_modules, or a
\* name with a "%", which starts with no package name, beside a package
\* whose package.json is not JSON.
NamedDocuments ==
    {("/p/tsconfig.json" :> Json(Doc(extends, "", <<AtLib>>)))
         @@ ("/p/node_modules" :> Dir) @@ ("/p/node_modules/inspector" :> Dir)
         @@ ("/p/node_modules/inspector/promises.json" :> Json(Doc("", ".", <<AtSrc>>)))
         @@ ("/p/node_modules/node:sqlite.json" :> Json(Doc("", ".", <<AtSrc>>)))
         @@ ("/p/node_modules/cfg" :> Dir)
         @@ ("/p/node_modules/cfg/package.json" :> File(<<>>))
         @@ ("/p/node_modules/cfg%x.json" :> Json(Doc("", ".", <<AtSrc>>))) :
     extends \in {"inspector/promises", "node:sqlite", "cfg%x"}}

ConfigOptions ==
    [baseDir |-> "/p", fileExtensions |-> <<"ts">>, includeNpm |-> TRUE,
     excludeRegExp |-> <<>>, skipTypeImports |-> FALSE, tsConfig |-> "/p/tsconfig.json"]

\* An extends chain that loads.
InitChain ==
    /\ \E app \in RefsConfigApp,
          config \in TwoDocuments \cup ThreeDocuments \cup EmptyBaseUrlDocuments
                         \cup PlainJsonDocuments :
           fs = ConfigTree(app) @@ config
    /\ startPath = "/p/src/app.ts"

\* An extends that require.resolve locates, in either build.
InitChainPackaged ==
    /\ \E app \in RefsConfigApp, config \in PackagedDocuments :
           fs = ConfigTree(app) @@ config
    /\ startPath = "/p/src/app.ts"

\* An extends that require.resolve looks for in the global folders.
InitChainGlobal ==
    /\ \E app \in RefsConfigApp, config \in GlobalDocuments :
           fs = ConfigTree(app) @@ config
    /\ startPath = "/p/src/app.ts"

\* An extends that names a module.
InitChainNamed ==
    /\ \E app \in RefsConfigApp, config \in NamedDocuments :
           fs = ConfigTree(app) @@ config
    /\ startPath = "/p/src/app.ts"

\* An extends that require.resolve never returns from.
InitChainBlocks ==
    /\ \E config \in BlockedDocuments : fs = ConfigTree(<<Imp("@/util")>>) @@ config
    /\ startPath = "/p/src/app.ts"

\* An extends chain that is cyclic.
InitChainLoops ==
    /\ \E app \in RefsConfigApp, config \in CyclicConfigs : fs = ConfigTree(app) @@ config
    /\ startPath = "/p/src/app.ts"

\* A start path that throws, after a chain that loads.
InitChainRejected ==
    /\ \E config \in ThreeDocuments : fs = ConfigTree(<<>>) @@ config
    /\ startPath = "/p/src/gone.ts"

\* The release line of Node is drawn where an extends names a module; it
\* makes no difference to the other chains, which are followed on Node 22.
ConfigInit ==
    /\ \/ /\ InitChain \/ InitChainLoops \/ InitChainBlocks \/ InitChainRejected
          /\ format = "cjs"
          /\ modulePaths = GlobalFolders
          /\ nodeVersion = 22
       \/ /\ InitChainPackaged
          /\ format \in {"cjs", "esm"}
          /\ modulePaths = GlobalFolders
          /\ nodeVersion = 22
       \/ /\ InitChainGlobal
          /\ format = "cjs"
          /\ modulePaths = <<"/lib">> \o GlobalFolders
          /\ nodeVersion = 22
       \/ /\ InitChainNamed
          /\ format = "cjs"
          /\ modulePaths = GlobalFolders
          /\ nodeVersion \in NodeVersions
    /\ options = ConfigOptions
    /\ requireExtensions = NodeExtensions
    /\ cwd = "/w"
    /\ tsMatchPath = NoMatcher
    /\ pc = "entry"
    /\ initialFiles = <<>>
    /\ visited = {}
    /\ allFiles = <<>>
    /\ dependencyGraph = <<>>
    /\ status = <<>>
    /\ awaits = (Top :> {})
    /\ calls = <<>>
    /\ reads = <<>>
    /\ writes = <<>>
    /\ steps = 0
    /\ loading = <<>>
    /\ other = NoOther

ConfigSpec == ConfigInit /\ [][Next]_vars

(***************************************************************************)
(* The extraction of a file's references: /p/file.ts refers to types.ts    *)
(* and values.ts with value and type-only imports and a type-only          *)
(* re-export, to a file that does not exist, to a file under t that an     *)
(* exclusion filter may cover, and to a package; types.ts and values.ts    *)
(* have a dependency each, so that the order in which their visits         *)
(* complete shows in the order of allFiles.                                *)
(***************************************************************************)
ExtractTree(file) ==
    ("/p" :> Dir) @@ ("/p/file.ts" :> File(file))
    @@ ("/p/types.ts" :> File(<<Imp("lodash")>>))
    @@ ("/p/values.ts" :> File(<<Imp("./t/x")>>))
    @@ ("/p/t" :> Dir) @@ ("/p/t/x.ts" :> File(<<>>))

ReferencePool ==
    {Imp("./values"), Imp("./types"), ImpType("./types"), ExpType("./types"),
     Imp("./values.ts"), Imp("./missing"), Imp("./t/x"), Imp("lodash")}

RefsFile == BoundedSeq(ReferencePool, MaxRefs)

ExtractOptions ==
    {[baseDir |-> "/p", fileExtensions |-> <<"ts">>, includeNpm |-> npm,
      excludeRegExp |-> ex, skipTypeImports |-> skip, tsConfig |-> ""] :
     npm \in BOOLEAN, ex \in ExcludeLists, skip \in BOOLEAN}

InitExtract ==
    /\ \E file \in RefsFile : fs = ExtractTree(file)
    /\ startPath = "/p/file.ts"
    /\ options \in ExtractOptions

\* A start path that throws.
InitExtractRejected ==
    /\ fs = ExtractTree(<<>>)
    /\ startPath = "/p/gone.ts"
    /\ options \in ExtractOptions

\* The AST walk of file.ts throws, before any reference, after the first,
\* or after the last.
InitExtractWalkFails ==
    /\ \E refs \in {<<Imp("./values"), Imp("./types")>>, <<Imp("./missing"), Imp("./values")>>},
          met \in 0..2 :
           fs = [ExtractTree(<<>>) EXCEPT !["/p/file.ts"] = WalkFails(refs, met)]
    /\ startPath = "/p/file.ts"
    /\ options \in ExtractOptions

\* Packages are included and an exclusion pattern matches the name of a
\* package, or the name of the working directory.
InitExtractPackages ==
    /\ \E file \in {<<Imp("lodash")>>, <<Imp("./values"), Imp("lodash")>>} :
           fs = ExtractTree(file)
    /\ startPath = "/p/file.ts"
    /\ \E text \in {"lodash", "w/"} :
           options = [baseDir |-> "/p", fileExtensions |-> <<"ts">>, includeNpm |-> TRUE,
                      excludeRegExp |-> <<[kind |-> "contains", text |-> text]>>,
                      skipTypeImports |-> FALSE, tsConfig |-> ""]

\* A tsconfig whose extends chain is cyclic.
InitExtractLoops ==
    /\ \E config \in CyclicConfigs : fs = ExtractTree(<<>>) @@ config
    /\ startPath = "/p/file.ts"
    /\ options = [baseDir |-> "/p", fileExtensions |-> <<"ts">>, includeNpm |-> FALSE,
                  excludeRegExp |-> <<>>, skipTypeImports |-> TRUE,
                  tsConfig |-> "/p/tsconfig.json"]

ExtractInit ==
    /\ \/ InitExtract \/ InitExtractRejected \/ InitExtractWalkFails
       \/ InitExtractPackages \/ InitExtractLoops
    /\ requireExtensions = NodeExtensions
    /\ format = "cjs"
    /\ modulePaths = GlobalFolders
    /\ nodeVersion = 22
    /\ cwd = "/w"
    /\ tsMatchPath = NoMatcher
    /\ pc = "entry"
    /\ initialFiles = <<>>
    /\ visited = {}
    /\ allFiles = <<>>
    /\ dependencyGraph = <<>>
    /\ status = <<>>
    /\ awaits = (Top :> {})
    /\ calls = <<>>
    /\ reads = <<>>
    /\ writes = <<>>
    /\ steps = 0
    /\ loading = <<>>
    /\ other = NoOther

ExtractSpec == ExtractInit /\ [][Next]_vars

(***************************************************************************)
(* Two invocations at the same time on one project: the first starts at    *)
(* a.ts, the second at a.ts, at b.ts, at the directory t, or at a path     *)
(* that throws (missing, a FIFO, a file without a source extension); no    *)
(* tsconfig, no exclusion.                                                 *)
(***************************************************************************)
OtherStartPaths == {"/p/a.ts", "/p/b.ts", "/p/t", "/p/gone.ts", "/p/pipe", "/p/n.json"}

PairInit ==
    /\ \E a \in RefsA, b \in RefsB : fs = Tree(a, b, <<Imp("./d")>>, <<>>)
    /\ startPath = "/p/a.ts"
    /\ options = [baseDir |-> "/p", fileExtensions |-> <<"ts">>, includeNpm |-> FALSE,
                  excludeRegExp |-> <<>>, skipTypeImports |-> FALSE, tsConfig |-> ""]
    /\ \E second \in OtherStartPaths :
           other = [pc |-> "entry", startPath |-> second, st |-> FreshLocals]
    /\ requireExtensions = NodeExtensions
    /\ format = "cjs"
    /\ modulePaths = GlobalFolders
    /\ nodeVersion = 22
    /\ cwd = "/w"
    /\ tsMatchPath = NoMatcher
    /\ pc = "entry"
    /\ initialFiles = <<>>
    /\ visited = {}
    /\ allFiles = <<>>
    /\ dependencyGraph = <<>>
    /\ status = <<>>
    /\ awaits = (Top :> {})
    /\ calls = <<>>
    /\ reads = <<>>
    /\ writes = <<>>
    /\ steps = 0
    /\ loading = <<>>

PairSpec == PairInit /\ [][PairNext]_vars

(***************************************************************************)
(* Vocabulary of the properties.                                           *)
(***************************************************************************)
Keys == DOMAIN dependencyGraph

Count(seq, x) == Cardinality({i \in 1..Len(seq) : seq[i] = x})

Elems(seq) == {seq[i] : i \in 1..Len(seq)}

Finished == pc \in {"returned", "failed"}

\* A regular file with a source extension that can be read and parsed.
ParsesOk(f) ==
    /\ IsFile(f) /\ IsSourceFile(f) /\ fs[f].readable /\ fs[f].parses
    /\ "met" \notin DOMAIN fs[f]

\* A regular file with a source extension whose read or parse fails.
Faulty(f) == IsFile(f) /\ IsSourceFile(f) /\ ~(fs[f].readable /\ fs[f].parses)

\* What each distinct specifier of f resolves to, in specifier order; nothing
\* for a file that cannot be read and parsed.
ResolvedOf(f) ==
    LET sources == CollectSources(fs[f].refs, <<>>)
    IN  IF ParsesOk(f)
        THEN [i \in 1..Len(sources) |-> resolveDependencyPath(sources[i], dirname(f))]
        ELSE <<>>

\* f and g reference each other, each through one specifier, and no exclusion
\* filter covers either.
OnTwoCycle(f, g) ==
    /\ f # g
    /\ Count(ResolvedOf(f), g) = 1
    /\ Count(ResolvedOf(g), f) = 1
    /\ ~Excluded(Rel(f)) /\ ~Excluded(Rel(g))

\* While the call is traversing it can always take a step: a visit is waiting
\* for its I/O, or the seeds' promises are fulfilled and the call can return.
NeverStuck ==
    pc = "traversing" => (\E p \in DOMAIN status : status[p] = "pending") \/ AllSeedsFulfilled

(***************************************************************************)
(* C1  On a module graph with a reference cycle f <-> g the call           *)
(* terminates: it is never stuck and takes at most one step per visited    *)
(* file besides examining the start path and returning; a visit of a file  *)
(* already in visited reads and records nothing again (one read, one       *)
(* write, however many visits were called); and in the returned graph f    *)
(* has exactly one edge to g and g exactly one edge to f.  (Written as      *)
(* "conclusion or not on a cycle", which is the implication.)              *)
(***************************************************************************)
C1_CycleTerminates ==
    \A f \in visited, g \in visited :
        \/ /\ NeverStuck
           /\ steps <= Cardinality(visited) + 2
           /\ reads[f] = 1
           /\ \A k \in Keys : writes[k] = 1
           /\ pc = "returned" =>
                  /\ Rel(f) \in Keys /\ Rel(g) \in Keys
                  /\ Count(dependencyGraph[Rel(f)], Rel(g)) = 1
                  /\ Count(dependencyGraph[Rel(g)], Rel(f)) = 1
        \/ ~OnTwoCycle(f, g)

\* The call returned from a cycle whose first file was visited twice and read once.
C1_Witness ==
    /\ pc = "returned"
    /\ \E f \in visited, g \in visited :
           OnTwoCycle(f, g) /\ calls[f] >= 2 /\ reads[f] = 1 /\ calls[g] = 1

(***************************************************************************)
(* Further vocabulary.                                                     *)
(***************************************************************************)
\* The seed files as the graph names them.
SeedKeys == {Rel(initialFiles[i]) : i \in 1..Len(initialFiles)}

\* The baseDir-relative paths of the regular files of the filesystem.
FileNames == {Rel(t) : t \in {u \in DOMAIN fs : IsFile(u)}}

\* The recorded edges of key k that name a file.
FileEdges(k, names) == Elems(dependencyGraph[k]) \cap names

\* The least set that holds S and, with every key, the files its edges name.
RECURSIVE ReachableFrom(_, _)
ReachableFrom(S, names) ==
    LET next == S \cup UNION {FileEdges(k, names) : k \in S \cap Keys}
    IN  IF next = S THEN S ELSE ReachableFrom(next, names)

\* The dependencies of f that survive the filter of getDirectDependencies,
\* computed from the content of f alone.
KeptOf(f) == {t \in Elems(ResolvedOf(f)) : t # "" /\ ~Excluded(Rel(t))}

\* The start path is a path the call must reject: stat fails, or it is neither
\* a regular file nor a directory.
EntryInvalid == ~Exists(startPath) \/ (~IsFile(startPath) /\ ~IsDirectory(startPath))

\* The place of x in seq.
PositionIn(seq, x) == CHOOSE i \in 1..Len(seq) : seq[i] = x

\* Nothing of a traversal has happened.
NothingVisited ==
    /\ visited = {} /\ allFiles = <<>> /\ Keys = {}
    /\ DOMAIN calls = {} /\ DOMAIN reads = {}

(***************************************************************************)
(* The graph a purely sequential traversal builds: each visit is awaited   *)
(* before the next one starts (depth first, in list order).                *)
(***************************************************************************)
RECURSIVE SeqVisit(_, _)
RECURSIVE SeqVisitAll(_, _)
SeqVisit(g, f) ==
    LET r     == getDirectDependencies(f, InOrder(Resolutions(f)))
        edges == [i \in 1..Len(r.deps) |-> EdgeOf(r.deps[i])]
    IN  IF Rel(f) \in DOMAIN g THEN g
        ELSE IF ~r.ok THEN g @@ (Rel(f) :> <<>>)
        ELSE SeqVisitAll(g @@ (Rel(f) :> edges),
                         SelectSeq(r.deps, LAMBDA d : ~IsPackageName(d)))

SeqVisitAll(g, files) ==
    IF files = <<>> THEN g
    ELSE SeqVisitAll(SeqVisit(g, Head(files)), Tail(files))

SequentialGraph == SeqVisitAll(<<>>, SeedsOfStartPath)

(***************************************************************************)
(* C2  When the call returns, the keys of the graph are exactly the files  *)
(* reachable from the seed files along the recorded file edges: every      *)
(* reachable file is a key, written once, one key per visited file, and no *)
(* key is unreachable from the seeds.                                      *)
(***************************************************************************)
C2_KeysAreReachable ==
    pc = "returned" =>
        /\ Keys = ReachableFrom(SeedKeys, FileNames)
        /\ \A k \in Keys : writes[k] = 1
        /\ Cardinality(Keys) = Cardinality(visited)

\* The call returned a graph with a key reached only through another
\* dependency, while a source file of the project is no key at all.
C2_Witness ==
    /\ pc = "returned"
    /\ Cardinality(Keys) >= 3
    /\ \E k \in Keys :
           k \notin SeedKeys /\ \A s \in SeedKeys : k \notin Elems(dependencyGraph[s])
    /\ \E t \in DOMAIN fs : IsFile(t) /\ HasSourceExtension(t) /\ Rel(t) \notin Keys

(***************************************************************************)
(* C3  In every state of every interleaving of the suspended visits, each  *)
(* file has been read at most once and its continuation (resolving and     *)
(* recording its specifiers) has run at most once, however many visitors   *)
(* called for it; and the check and the mark are one step: a file some     *)
(* visitor has called for is in visited before any other step runs.        *)
(***************************************************************************)
C3_AtMostOnce ==
    /\ \A p \in DOMAIN reads : reads[p] <= 1
    /\ \A k \in DOMAIN writes : writes[k] <= 1
    /\ DOMAIN calls \subseteq visited
    /\ \A p \in DOMAIN status : p \in visited

\* A diamond: two settled files both depend on d, both called for it, and
\* the first visit of d, which read it once, is still suspended.
C3_Witness ==
    \E d \in DOMAIN status :
        /\ status[d] = "pending"
        /\ calls[d] >= 2
        /\ reads[d] = 1
        /\ ~Contains(initialFiles, d)
        /\ \E b \in visited, c \in visited :
               /\ b # c
               /\ status[b] = "settled" /\ status[c] = "settled"
               /\ d \in KeptOf(b) /\ d \in KeptOf(c)

(***************************************************************************)
(* C4  Whatever the order in which the suspended visits continue, the      *)
(* returned graph has the keys and, for every key, the edge set of the     *)
(* graph the sequential traversal builds from the same filesystem and      *)
(* options; so two runs on unchanged input agree.                          *)
(***************************************************************************)
C4_OrderIndependent ==
    pc = "returned" =>
        LET seq == SequentialGraph
        IN  /\ Keys = DOMAIN seq
            /\ \A k \in Keys : Elems(dependencyGraph[k]) = Elems(seq[k])

\* The call returned after an interleaving the sequential traversal does not
\* have: b and c both depend on d, the visit of b was started before that
\* of c, and yet c continued first and started the visit of d.
C4_Witness ==
    /\ pc = "returned"
    /\ \E b \in visited, c \in visited :
           /\ b # c
           /\ PositionIn(allFiles, Rel(b)) < PositionIn(allFiles, Rel(c))
           /\ \E d \in awaits[c] : d \in KeptOf(b) /\ d \notin {b, c}

(***************************************************************************)
(* C5  Exclusion law: a file whose baseDir-relative path matches an        *)
(* exclusion filter is never visited, never read, never a key, never in    *)
(* files, and no edge list names it, whether an import leads to it or a    *)
(* directory entry lists it.                                               *)
(***************************************************************************)
C5_ExclusionLaw ==
    \/ options.excludeRegExp = <<>>
    \/ NothingVisited
    \/ \A t \in DOMAIN fs :
           (IsFile(t) /\ Excluded(Rel(t))) =>
               /\ t \notin visited
               /\ t \notin DOMAIN calls
               /\ t \notin DOMAIN reads
               /\ Rel(t) \notin Keys
               /\ ~Contains(allFiles, Rel(t))
               /\ \A k \in Keys : Rel(t) \notin Elems(dependencyGraph[k])

\* The call returned from the project directory, which lists an excluded
\* file that a visited file also imports.
C5_Witness ==
    /\ pc = "returned"
    /\ IsDirectory(startPath)
    /\ \E t \in DOMAIN fs :
           /\ IsFile(t) /\ HasSourceExtension(t) /\ Excluded(Rel(t))
           /\ IsUnderStart(t)
           /\ \E f \in visited : t \in Elems(ResolvedOf(f))

(***************************************************************************)
(* C6  A file f that is not a seed and whose read or parse fails does not  *)
(* fail the call: the traversal is never stuck and never rejects, f is in  *)
(* files, no visit is started on account of f, and once the call returns   *)
(* graph[f] is empty, every importer keeps its edge to f, and every other  *)
(* dependency of an importer is visited, is a key and is an edge of the    *)
(* importer, with its own dependencies recorded.                           *)
(***************************************************************************)
C6_FailedFileDegrades ==
    \A f \in visited :
        \/ fs[f].readable /\ fs[f].parses
        \/ Contains(initialFiles, f)
        \/ ~Faulty(f)
        \/ /\ pc # "failed"
           /\ NeverStuck
           /\ Contains(allFiles, Rel(f))
           /\ awaits[f] = {}
           /\ status[f] = "settled" => Rel(f) \in Keys /\ dependencyGraph[Rel(f)] = <<>>
           /\ pc = "returned" =>
                  /\ Rel(f) \in Keys
                  /\ dependencyGraph[Rel(f)] = <<>>
                  /\ \A i \in visited :
                         (ParsesOk(i) /\ f \in KeptOf(i)) =>
                             \A s \in KeptOf(i) :
                                 /\ s \in visited
                                 /\ Rel(s) \in Keys /\ Rel(i) \in Keys
                                 /\ Rel(s) \in Elems(dependencyGraph[Rel(i)])
                                 /\ Elems(dependencyGraph[Rel(s)])
                                        = {Rel(x) : x \in KeptOf(s)}

\* The call, started at a file, returned although a dependency could not be
\* read or parsed; its importer has another dependency, which was visited.
C6_Witness ==
    /\ pc = "returned"
    /\ IsFile(startPath)
    /\ \E f \in visited :
           /\ Faulty(f) /\ ~Contains(initialFiles, f)
           /\ \E i \in visited :
                  /\ f \in KeptOf(i)
                  /\ \E s \in KeptOf(i) : s # f /\ s \in visited /\ ParsesOk(s)

(***************************************************************************)
(* C7  A start path that does not exist, or that is neither a regular file *)
(* nor a directory, makes the call reject: it never starts a traversal,    *)
(* never returns a graph, and no file is visited.                          *)
(***************************************************************************)
C7_InvalidEntryRejects ==
    EntryInvalid => pc \in {"entry", "stat", "failed"} /\ NothingVisited

\* The call rejected for a start path that exists but is neither a file nor
\* a directory.
C7_Witness == pc = "failed" /\ Exists(startPath) /\ EntryInvalid

\* The call rejected for a start path that does not exist.
C7_WitnessMissing == pc = "failed" /\ ~Exists(startPath)

(***************************************************************************)
(* C8  An entry file whose baseDir-relative path matches an exclusion      *)
(* filter is a configuration error: the call does not return a result.     *)
(***************************************************************************)
C8_ExcludedEntryRejects ==
    (IsFile(startPath) /\ HasSourceExtension(startPath) /\ Excluded(Rel(startPath)))
        => pc # "returned"

(***************************************************************************)
(* C9  An entry file whose extension is not in fileExtensions makes the    *)
(* call reject: it never starts a traversal, never returns a graph, and    *)
(* nothing is visited.                                                     *)
(***************************************************************************)
C9_WrongExtensionRejects ==
    (IsFile(startPath) /\ ~HasSourceExtension(startPath))
        => pc \in {"entry", "stat", "failed"} /\ NothingVisited

\* The call rejected for an entry file without a source extension.
C9_Witness == pc = "failed" /\ IsFile(startPath) /\ ~HasSourceExtension(startPath)

(***************************************************************************)
(* C10  An entry file with an allowed extension whose content cannot be    *)
(* read fails the whole call: no graph is returned.                        *)
(***************************************************************************)
C10_UnreadableEntryRejects ==
    (/\ IsFile(startPath) /\ HasSourceExtension(startPath)
     /\ ~Excluded(Rel(startPath)) /\ ~fs[startPath].readable)
        => pc # "returned"

(***************************************************************************)
(* Vocabulary of the resolution properties.                                *)
(***************************************************************************)
\* The distinct specifiers of f, in order of first occurrence.
SpecifiersOf(f) == CollectSources(fs[f].refs, <<>>)

\* source starts with neither "." nor "/".
IsBare(source) == ~StartsWith(source, ".") /\ ~StartsWith(source, "/")

\* f was read and parsed, and its continuation has run.
Processed(f) == f \in DOMAIN status /\ status[f] = "settled" /\ ParsesOk(f)

\* The document at p, or one along its extends chain, is missing, unreadable
\* or not JSON.
RECURSIVE ChainBroken(_)
ChainBroken(p) ==
    \/ ~IsFile(p)
    \/ ~fs[p].readable
    \/ ~IsJson(fs[p])
    \/ /\ ConfigAt(p).extends # ""
       /\ ChainBroken(resolve(dirname(p), ConfigAt(p).extends))

\* What a specifier resolves to with an empty alias table: a relative or
\* absolute specifier is probed, a bare one is the package name itself when
\* includeNpm is set and nothing ("") otherwise.
NoAliasTarget(source, fromDir) ==
    IF StartsWith(source, ".")
    THEN resolveFileWithExtensions(resolve(fromDir, source), options.fileExtensions)
    ELSE IF StartsWith(source, "/")
         THEN resolveFileWithExtensions(source, options.fileExtensions)
         ELSE IF options.includeNpm THEN source ELSE ""

(***************************************************************************)
(* C11  When the tsconfig named by options.tsConfig, or a document of its  *)
(* extends chain, is missing, unreadable or not JSON, the call does not    *)
(* fail on that account: the alias table stays empty, the call rejects     *)
(* only for a start path that throws, the traversal is never stuck, and    *)
(* every specifier of every processed file resolves as it does without a   *)
(* tsconfig: relative and absolute ones by probing, a bare one to the      *)
(* package name when includeNpm is set and to nothing otherwise; the file  *)
(* has one edge per specifier that resolved.                               *)
(***************************************************************************)
C11_BrokenConfigDegrades ==
    \/ options.tsConfig = ""
    \/ pc = "entry"
    \/ ~ChainBroken(options.tsConfig)
    \/ /\ tsMatchPath = NoMatcher
       /\ pc = "failed" => StartPathThrows
       /\ NeverStuck
       /\ \A f \in visited :
              Processed(f) =>
                  LET dir     == dirname(f)
                      sources == SpecifiersOf(f)
                      targets == [i \in 1..Len(sources) |-> NoAliasTarget(sources[i], dir)]
                  IN  /\ \A i \in 1..Len(sources) :
                             resolveDependencyPath(sources[i], dir) = targets[i]
                      /\ Rel(f) \in Keys
                      /\ Len(dependencyGraph[Rel(f)])
                             = Cardinality({i \in 1..Len(sources) : targets[i] # ""})

\* The call returned a graph with an edge although a document of the extends
\* chain of the tsconfig could not be loaded.
C11_Witness ==
    /\ pc = "returned"
    /\ options.tsConfig # ""
    /\ IsFile(options.tsConfig)
    /\ ChainBroken(options.tsConfig)
    /\ \E k \in Keys : dependencyGraph[k] # <<>>

\* The call rejected for its start path after a tsconfig failed to load.
C11_WitnessRejected ==
    pc = "failed" /\ options.tsConfig # "" /\ ChainBroken(options.tsConfig)

\* Some configured pattern of the alias table matches source.
PatternMatches(source) ==
    /\ tsMatchPath.defined
    /\ \E i \in 1..Len(tsMatchPath.paths) :
           StarMatch(tsMatchPath.paths[i].pattern, source).ok

(***************************************************************************)
(* C12  With includeNpm set, a specifier that starts with neither "." nor  *)
(* "/" and that no configured alias pattern matches, a scoped name with a  *)
(* "/" included, is a terminal package node: once its importer is          *)
(* processed the name is in the importer's edge list and in files, it was  *)
(* never visited, and neither the name nor a path made from it is a key    *)
(* of the graph.                                                           *)
(***************************************************************************)
C12_PackagesAreTerminal ==
    \/ pc = "entry"
    \/ ~options.includeNpm
    \/ \A f \in visited :
           Processed(f) =>
               \A s \in Elems(SpecifiersOf(f)) :
                   IsBare(s) /\ ~PatternMatches(s) =>
                       /\ Rel(f) \in Keys
                       /\ s \in Elems(dependencyGraph[Rel(f)])
                       /\ s \in Elems(allFiles)
                       /\ s \notin visited
                       /\ s \notin Keys
                       /\ Rel(s) \notin Keys

\* A name without "/" is handled as the claim says: "react" is an edge of the
\* returned graph and in files, and was not visited.
C12_PlainNameIsTerminal ==
    /\ pc = "returned"
    /\ options.includeNpm
    /\ "react" \in Elems(allFiles)
    /\ "react" \notin visited
    /\ \E k \in Keys : "react" \in Elems(dependencyGraph[k])

\* rel is the baseDir-relative path of an entry of the file system.
NamesFile(rel) == \E f \in DOMAIN fs : Rel(f) = rel

\* No key of the graph, no edge and no element of files is a package name:
\* each is the path of an entry of the file system.
NoPackageNames ==
    /\ \A k \in Keys :
           /\ NamesFile(k)
           /\ \A i \in 1..Len(dependencyGraph[k]) : NamesFile(dependencyGraph[k][i])
    /\ \A i \in 1..Len(allFiles) : NamesFile(allFiles[i])

\* target is a file that source names under the baseUrl of the loaded
\* tsconfig: the matcher looks every specifier up there when no configured
\* pattern matches it.
UnderBaseUrl(source, target) ==
    /\ tsMatchPath.defined
    /\ IsFile(target)
    /\ StartsWith(target, resolve(tsMatchPath.baseUrl, source))

(***************************************************************************)
(* C13  With includeNpm unset, a specifier that starts with neither "."    *)
(* nor "/" and that no configured alias pattern matches resolves to        *)
(* nothing, unless a tsconfig is loaded and the specifier names a file     *)
(* under its baseUrl, and then it resolves to that file; it never          *)
(* resolves to its own name and is never an edge; and in every state every *)
(* key of the graph, every edge and every element of files is the path of  *)
(* an entry of the file system, so no package name appears anywhere.       *)
(***************************************************************************)
C13_PackagesSuppressed ==
    \/ pc = "entry"
    \/ options.includeNpm
    \/ /\ \A f \in visited :
              Processed(f) =>
                  \A s \in Elems(SpecifiersOf(f)) :
                      LET target == resolveDependencyPath(s, dirname(f))
                      IN  IsBare(s) =>
                              /\ ~PatternMatches(s) =>
                                     target = "" \/ UnderBaseUrl(s, target)
                              /\ target # s
                              /\ s \notin Elems(dependencyGraph[Rel(f)])
       /\ NoPackageNames

\* C13 as stated: with includeNpm unset every specifier that starts with
\* neither "." nor "/" and that no configured alias pattern matches resolves
\* to nothing, and no package name appears in the graph or in files.
C13_UnmatchedUnresolved ==
    \/ pc = "entry"
    \/ options.includeNpm
    \/ /\ \A f \in visited :
              Processed(f) =>
                  \A s \in Elems(SpecifiersOf(f)) :
                      IsBare(s) /\ ~PatternMatches(s) =>
                          resolveDependencyPath(s, dirname(f)) = ""
       /\ NoPackageNames

\* The call returned for a file whose only specifier is a package name, and
\* the file has no edge.
C13_Witness ==
    /\ pc = "returned"
    /\ ~options.includeNpm
    /\ \E f \in visited :
           /\ Processed(f)
           /\ SpecifiersOf(f) \in {<<"react">>, <<"@scope/pkg">>}
           /\ dependencyGraph[Rel(f)] = <<>>

\* The call returned for a file with a specifier no configured pattern
\* matches, which resolved to a file under baseUrl and is an edge to it.
C13_ResolvedUnderBaseUrl ==
    /\ pc = "returned"
    /\ ~options.includeNpm
    /\ \E f \in visited :
           /\ Processed(f)
           /\ \E s \in Elems(SpecifiersOf(f)) :
                  /\ IsBare(s)
                  /\ ~PatternMatches(s)
                  /\ UnderBaseUrl(s, resolveDependencyPath(s, dirname(f)))
                  /\ Rel(resolveDependencyPath(s, dirname(f))) \in Elems(dependencyGraph[Rel(f)])

\* The candidates of the configured patterns that match source, rewritten
\* against baseUrl, longest pattern prefix first.
RECURSIVE RewrittenCandidates(_, _)
RewrittenCandidates(rules, source) ==
    IF rules = <<>> THEN <<>>
    ELSE LET m == StarMatch(Head(rules).pattern, source)
         IN  (IF m.ok
              THEN [k \in 1..Len(Head(rules).candidates) |->
                       resolve(tsMatchPath.baseUrl, ReplaceStar(Head(rules).candidates[k], m.text))]
              ELSE <<>>)
             \o RewrittenCandidates(Tail(rules), source)

\* The file the first rewritten candidate that probes successfully names,
\* "" when none does.
AliasProbe(source) ==
    LET candidates == RewrittenCandidates(SortByLongestPrefix(tsMatchPath.paths), source)
        probes     == [k \in 1..Len(candidates) |->
                          resolveFileWithExtensions(candidates[k], options.fileExtensions)]
        hits       == {k \in 1..Len(probes) : probes[k] # ""}
    IN  IF hits = {} THEN "" ELSE probes[CHOOSE k \in hits : \A j \in hits : k <= j]

(***************************************************************************)
(* C14  A specifier that matches a configured alias pattern and has a      *)
(* rewritten candidate that probes successfully resolves to that file,     *)
(* whatever includeNpm is: once its importer is processed the file's       *)
(* baseDir-relative path is an edge of the importer, the file was visited, *)
(* and the specifier text is neither an edge nor in files.                 *)
(***************************************************************************)
C14_AliasHitResolves ==
    \/ pc = "entry"
    \/ \A f \in visited :
           Processed(f) =>
               \A s \in Elems(SpecifiersOf(f)) :
                   IsBare(s) /\ PatternMatches(s) /\ AliasProbe(s) # "" =>
                       /\ resolveDependencyPath(s, dirname(f)) = AliasProbe(s)
                       /\ Rel(f) \in Keys
                       /\ Rel(AliasProbe(s)) \in Elems(dependencyGraph[Rel(f)])
                       /\ AliasProbe(s) \in visited
                       /\ s \notin Elems(dependencyGraph[Rel(f)])
                       /\ s \notin Elems(allFiles)

\* With includeNpm set the alias is resolved as the claim says: "@/only" gives
\* the edge src/only.ts, and the file was visited.
C14_ResolvesWithNpm ==
    /\ pc = "returned"
    /\ options.includeNpm
    /\ "src/app.ts" \in Keys
    /\ dependencyGraph["src/app.ts"] = <<"src/only.ts">>
    /\ "/p/src/only.ts" \in visited

(***************************************************************************)
(* C15  With includeNpm unset, a specifier that matches a configured alias *)
(* pattern and has no candidate that probes to an existing file resolves   *)
(* to nothing: it adds no edge to its importer, its text is neither an     *)
(* edge nor in files nor visited, and the file it would name as a path     *)
(* relative to the importer's directory is not visited on its account.     *)
(***************************************************************************)
C15_AliasMissSuppressed ==
    \/ pc = "entry"
    \/ options.includeNpm
    \/ \A f \in visited :
           Processed(f) =>
               LET dir     == dirname(f)
                   sources == SpecifiersOf(f)
                   misses  == {i \in 1..Len(sources) :
                                  /\ IsBare(sources[i])
                                  /\ PatternMatches(sources[i])
                                  /\ AliasProbe(sources[i]) = ""}
                   others  == {i \in 1..Len(sources) :
                                  i \notin misses /\ resolveDependencyPath(sources[i], dir) # ""}
               IN  /\ Rel(f) \in Keys
                   /\ Len(dependencyGraph[Rel(f)]) = Cardinality(others)
                   /\ \A i \in misses :
                          /\ resolveDependencyPath(sources[i], dir) = ""
                          /\ sources[i] \notin Elems(dependencyGraph[Rel(f)])
                          /\ sources[i] \notin Elems(allFiles)
                          /\ sources[i] \notin visited
                          /\ others = {} =>
                                 ResolveAsRelative(sources[i], dir) \notin visited

\* The call returned for a file whose only specifier matches the alias @/*
\* and names no file under src, while a file of that name exists relative to
\* the importer; the importer has no edge.
C15_Witness ==
    /\ pc = "returned"
    /\ ~options.includeNpm
    /\ \E f \in visited :
           /\ Processed(f)
           /\ SpecifiersOf(f) = <<"@/gone">>
           /\ PatternMatches("@/gone")
           /\ AliasProbe("@/gone") = ""
           /\ ResolveAsRelative("@/gone", dirname(f)) # ""
           /\ dependencyGraph[Rel(f)] = <<>>

(***************************************************************************)
(* C16  With includeNpm set, a specifier that matches a configured alias   *)
(* pattern and has no candidate that probes to an existing file falls      *)
(* through to package passthrough: it resolves to its own text, and once   *)
(* its importer is processed that text is a package edge of the importer:  *)
(* it is in the importer's edge list and in files, and was not visited.    *)
(***************************************************************************)
C16_AliasMissIsPackage ==
    \/ pc = "entry"
    \/ ~options.includeNpm
    \/ \A f \in visited :
           Processed(f) =>
               \A s \in Elems(SpecifiersOf(f)) :
                   IsBare(s) /\ PatternMatches(s) /\ AliasProbe(s) = "" =>
                       /\ resolveDependencyPath(s, dirname(f)) = s
                       /\ Rel(f) \in Keys
                       /\ s \in Elems(dependencyGraph[Rel(f)])
                       /\ s \in Elems(allFiles)
                       /\ s \notin visited

\* The resolver's part of the fall-through is reached: the call returned with
\* includeNpm set for a file whose only specifier matches the alias and has
\* no probing candidate, and the resolver returns the text itself.
C16_ResolverFallsThrough ==
    /\ pc = "returned"
    /\ options.includeNpm
    /\ \E f \in visited :
           /\ Processed(f)
           /\ SpecifiersOf(f) = <<"@/gone">>
           /\ PatternMatches("@/gone")
           /\ resolveDependencyPath("@/gone", dirname(f)) = "@/gone"

\* target lies outside baseDir.
OutsideBaseDir(target) == ~StartsWith(target, options.baseDir \o sep)

(***************************************************************************)
(* C17  A specifier that starts with "." is resolved against the directory *)
(* of the importing file and then probed.  Once the importer is processed, *)
(* a target found is an edge of the importer as its path relative to       *)
(* baseDir, which starts with ".." exactly when the target lies outside    *)
(* baseDir; the target is listed in files and was visited, outside baseDir *)
(* or not.                                                                 *)
(***************************************************************************)
C17_RelativeAgainstImporter ==
    \/ pc = "entry"
    \/ \A f \in visited :
           Processed(f) =>
               \A s \in Elems(SpecifiersOf(f)) :
                   StartsWith(s, ".") =>
                       LET target == resolveFileWithExtensions(resolve(dirname(f), s),
                                                               options.fileExtensions)
                       IN  /\ resolveDependencyPath(s, dirname(f)) = target
                           /\ target # "" =>
                                  /\ Rel(f) \in Keys
                                  /\ Rel(target) \in Elems(dependencyGraph[Rel(f)])
                                  /\ Rel(target) \in Elems(allFiles)
                                  /\ target \in visited
                                  /\ OutsideBaseDir(target) <=> StartsWith(Rel(target), "..")

\* The call returned after following "../../o/out" from /p/src to /o/out.ts,
\* outside baseDir /p: the edge is "../o/out.ts", and the file was visited and
\* has its own key.
C17_Witness ==
    /\ pc = "returned"
    /\ "src/app.ts" \in Keys
    /\ dependencyGraph["src/app.ts"] = <<"../o/out.ts">>
    /\ "../o/out.ts" \in Elems(allFiles)
    /\ "/o/out.ts" \in visited
    /\ "../o/out.ts" \in Keys

\* The call returned after resolving "./util" in /p/src, where baseDir /p
\* holds no util.
C17_WitnessInside ==
    /\ pc = "returned"
    /\ \E f \in visited : Processed(f) /\ SpecifiersOf(f) = <<"./util">>
    /\ "src/util.ts" \in Keys

(***************************************************************************)
(* C18  Whatever includeNpm and the alias table are, a specifier that      *)
(* starts with "." or "/" resolves to what probing finds (the importer's   *)
(* directory joined with it, or the absolute path itself) or to nothing:   *)
(* the alias table has no part in the result, the result is never taken    *)
(* for a package name, and a file found is an edge of the importer by its  *)
(* baseDir-relative path and was visited.                                  *)
(***************************************************************************)
C18_PathsAreNeverPackages ==
    \/ pc = "entry"
    \/ \A f \in visited :
           Processed(f) =>
               \A s \in Elems(SpecifiersOf(f)) :
                   ~IsBare(s) =>
                       LET target == resolveDependencyPath(s, dirname(f))
                       IN  /\ target = NoAliasTarget(s, dirname(f))
                           /\ target = "" \/ Exists(target)
                           /\ target # "" =>
                                  /\ ~IsPackageName(target)
                                  /\ EdgeOf(target) = Rel(target)
                                  /\ Rel(f) \in Keys
                                  /\ Rel(target) \in Elems(dependencyGraph[Rel(f)])
                                  /\ target \in visited

\* The call returned with includeNpm set and the alias table loaded for a
\* file whose only specifier is the absolute path "/o/out": the edge is the
\* file found by probing.
C18_Witness ==
    /\ pc = "returned"
    /\ options.includeNpm
    /\ tsMatchPath.defined
    /\ \E f \in visited :
           /\ Processed(f)
           /\ SpecifiersOf(f) = <<"/o/out">>
           /\ dependencyGraph[Rel(f)] = <<"../o/out.ts">>

\* The same with a relative specifier that finds nothing: no edge.
C18_WitnessUnresolved ==
    /\ pc = "returned"
    /\ options.includeNpm
    /\ tsMatchPath.defined
    /\ \E f \in visited :
           /\ Processed(f)
           /\ SpecifiersOf(f) = <<"./gone">>
           /\ dependencyGraph[Rel(f)] = <<>>

\* The path a relative or absolute specifier of f is probed at.
CandidateBase(f, s) == IF StartsWith(s, "/") THEN s ELSE resolve(dirname(f), s)

\* The index files of directory base with a configured extension that exist.
IndexFiles(base) ==
    {p \in DOMAIN fs :
        \E i \in 1..Len(options.fileExtensions) :
            p = base \o "/index." \o options.fileExtensions[i]}

\* The files named base with a configured extension appended.
AppendedFiles(base) ==
    {p \in DOMAIN fs :
        /\ IsFile(p)
        /\ \E i \in 1..Len(options.fileExtensions) :
               p = base \o "." \o options.fileExtensions[i]}

(***************************************************************************)
(* C19  Probing prefers the file as written to a directory index and a     *)
(* directory index to an appended extension: a path that is a regular      *)
(* file is the result unchanged even when the path with an extension       *)
(* appended exists too; a directory that holds an index file gives one of  *)
(* its index files even when a sibling file with the directory's name      *)
(* and an extension exists; only otherwise is the result a file with an    *)
(* extension appended, or nothing.  The importer's edge is that result.    *)
(***************************************************************************)
C19_ProbePrecedence ==
    \/ pc = "entry"
    \/ \A f \in visited :
           Processed(f) =>
               \A s \in Elems(SpecifiersOf(f)) :
                   ~IsBare(s) =>
                       LET base   == CandidateBase(f, s)
                           result == resolveFileWithExtensions(base, options.fileExtensions)
                       IN  /\ IsFile(base) => result = base
                           /\ IsDirectory(base) /\ IndexFiles(base) # {} =>
                                  result \in IndexFiles(base)
                           /\ ~IsFile(base) /\ ~(IsDirectory(base) /\ IndexFiles(base) # {}) =>
                                  IF AppendedFiles(base) = {} THEN result = ""
                                  ELSE result \in AppendedFiles(base)
                           /\ resolveDependencyPath(s, dirname(f)) = result
                           /\ result # "" =>
                                  /\ Rel(f) \in Keys
                                  /\ Rel(result) \in Elems(dependencyGraph[Rel(f)])

\* The call returned for "./util.ts": util.ts is the edge although util.ts.ts
\* exists.
C19_Witness ==
    /\ pc = "returned"
    /\ IsFile("/p/src/util.ts.ts")
    /\ \E f \in visited :
           /\ Processed(f)
           /\ SpecifiersOf(f) = <<"./util.ts">>
           /\ dependencyGraph[Rel(f)] = <<"src/util.ts">>

\* The call returned for "./widgets": the index file of the directory is the
\* edge although widgets.ts exists.
C19_WitnessIndex ==
    /\ pc = "returned"
    /\ IsFile("/p/src/widgets.ts")
    /\ \E f \in visited :
           /\ Processed(f)
           /\ SpecifiersOf(f) = <<"./widgets">>
           /\ dependencyGraph[Rel(f)] = <<"src/widgets/index.ts">>

\* The position of the extension that p ends with in the configured list, or
\* one past its end.
ExtensionRank(p) ==
    LET hits == {i \in 1..Len(options.fileExtensions) :
                    EndsWith(p, "." \o options.fileExtensions[i])}
    IN  IF hits = {} THEN Len(options.fileExtensions) + 1
        ELSE CHOOSE i \in hits : \A j \in hits : i <= j

(***************************************************************************)
(* C20  When several candidates exist, probing returns the one whose       *)
(* extension comes first in fileExtensions: among the index files of a     *)
(* directory, and among the files with an extension appended, no existing  *)
(* candidate has an extension that precedes the result's in the            *)
(* configured order.  The importer's edge is that result.                  *)
(***************************************************************************)
C20_ExtensionOrder ==
    \/ pc = "entry"
    \/ \A f \in visited :
           Processed(f) =>
               \A s \in Elems(SpecifiersOf(f)) :
                   ~IsBare(s) =>
                       LET base   == CandidateBase(f, s)
                           result == resolveFileWithExtensions(base, options.fileExtensions)
                           rivals == IF IsFile(base) THEN {}
                                     ELSE IF IsDirectory(base) /\ IndexFiles(base) # {}
                                          THEN IndexFiles(base)
                                          ELSE AppendedFiles(base)
                       IN  rivals # {} =>
                               /\ result \in rivals
                               /\ \A p \in rivals : ExtensionRank(result) <= ExtensionRank(p)
                               /\ resolveDependencyPath(s, dirname(f)) = result
                               /\ Rel(f) \in Keys
                               /\ Rel(result) \in Elems(dependencyGraph[Rel(f)])

\* The call returned with extensions <<"js", "ts">> for "./util", where
\* util.ts and util.js both exist: the edge is util.js.
C20_Witness ==
    /\ pc = "returned"
    /\ options.fileExtensions = <<"js", "ts">>
    /\ IsFile("/p/src/util.ts") /\ IsFile("/p/src/util.js")
    /\ \E f \in visited :
           /\ Processed(f)
           /\ SpecifiersOf(f) = <<"./util">>
           /\ dependencyGraph[Rel(f)] = <<"src/util.js">>

\* The same for the index files of a directory, with <<"ts", "js">>.
C20_WitnessIndex ==
    /\ pc = "returned"
    /\ options.fileExtensions = <<"ts", "js">>
    /\ IsFile("/p/src/widgets/index.ts") /\ IsFile("/p/src/widgets/index.js")
    /\ \E f \in visited :
           /\ Processed(f)
           /\ SpecifiersOf(f) = <<"./widgets">>
           /\ dependencyGraph[Rel(f)] = <<"src/widgets/index.ts">>

(***************************************************************************)
(* C21  Every path the prober returns exists as a regular file: once the   *)
(* importer is processed, what a relative or absolute specifier resolves   *)
(* to is nothing or a regular file, never a directory named index.<ext>    *)
(* inside the candidate nor a directory named <candidate>.<ext>, and every *)
(* edge recorded for such a specifier names a regular file.                *)
(***************************************************************************)
C21_ProbedPathsAreFiles ==
    \/ pc = "entry"
    \/ \A f \in visited :
           Processed(f) =>
               \A s \in Elems(SpecifiersOf(f)) :
                   ~IsBare(s) =>
                       LET result == resolveFileWithExtensions(CandidateBase(f, s),
                                                               options.fileExtensions)
                       IN  /\ result = "" \/ IsFile(result)
                           /\ resolveDependencyPath(s, dirname(f)) = result
                           /\ Rel(f) \in Keys
                           /\ \A i \in 1..Len(dependencyGraph[Rel(f)]) :
                                  \E g \in DOMAIN fs :
                                      IsFile(g) /\ Rel(g) = dependencyGraph[Rel(f)][i]

\* For an appended extension the claim holds: "./odd" finds only the
\* directory odd.ts, and the importer has no edge.
C21_AppendedDirectorySkipped ==
    /\ pc = "returned"
    /\ IsDirectory("/p/src/odd.ts")
    /\ \E f \in visited :
           /\ Processed(f)
           /\ SpecifiersOf(f) = <<"./odd">>
           /\ dependencyGraph[Rel(f)] = <<>>

(***************************************************************************)
(* Vocabulary of the tsconfig properties.                                  *)
(***************************************************************************)
\* The documents of the extends chain that starts at p, most derived first;
\* for a chain that loads.
RECURSIVE ChainPaths(_)
ChainPaths(p) ==
    IF ConfigAt(p).extends = "" THEN <<p>>
    ELSE <<p>> \o ChainPaths(ExtendsPath(p))

\* The rules of the document at p.
RulesAt(p) == ConfigAt(p).paths

\* The patterns the document at p declares.
PatternsAt(p) == {RulesAt(p)[i].pattern : i \in 1..Len(RulesAt(p))}

\* The patterns declared anywhere in chain.
DeclaredPatterns(chain) == UNION {PatternsAt(chain[i]) : i \in 1..Len(chain)}

\* The candidate list of pattern in the document at p, which declares it.
CandidatesAt(p, pattern) ==
    RulesAt(p)[CHOOSE i \in 1..Len(RulesAt(p)) : RulesAt(p)[i].pattern = pattern].candidates

\* The candidate list of the most derived document of chain that declares
\* pattern.
DerivedCandidates(chain, pattern) ==
    LET declaring == {i \in 1..Len(chain) : pattern \in PatternsAt(chain[i])}
    IN  CandidatesAt(chain[CHOOSE i \in declaring : \A j \in declaring : i <= j], pattern)

\* The file the first of candidates that probes successfully names once "*"
\* stands for text, resolved against baseUrl; "" when none does.
ProbeCandidates(baseUrl, candidates, text) ==
    LET probes == [k \in 1..Len(candidates) |->
                      resolveFileWithExtensions(resolve(baseUrl, ReplaceStar(candidates[k], text)),
                                                options.fileExtensions)]
        hits   == {k \in 1..Len(probes) : probes[k] # ""}
    IN  IF hits = {} THEN "" ELSE probes[CHOOSE k \in hits : \A j \in hits : k <= j]

(***************************************************************************)
(* C22  Merging an extends chain gives the key-wise union of the           *)
(* documents' paths, for chains of two and of three documents: the table   *)
(* holds every pattern declared anywhere in the chain exactly once, each   *)
(* with the candidate list of the most derived document that declares it   *)
(* and no candidate of another document; and a specifier that matches a    *)
(* declared pattern and finds a file through that list has the file as an  *)
(* edge of its importer.                                                   *)
(***************************************************************************)
C22_KeyWiseUnion ==
    \/ pc = "entry"
    \/ ~tsMatchPath.defined
    \/ LET chain == ChainPaths(options.tsConfig)
           table == tsMatchPath.paths
       IN  /\ {table[i].pattern : i \in 1..Len(table)} = DeclaredPatterns(chain)
           /\ \A i, j \in 1..Len(table) : table[i].pattern = table[j].pattern => i = j
           /\ \A i \in 1..Len(table) :
                  table[i].candidates = DerivedCandidates(chain, table[i].pattern)
           /\ \A f \in visited :
                  Processed(f) =>
                      \A s \in Elems(SpecifiersOf(f)), pattern \in DeclaredPatterns(chain) :
                          LET m    == StarMatch(pattern, s)
                              file == ProbeCandidates(tsMatchPath.baseUrl,
                                                      DerivedCandidates(chain, pattern), m.text)
                          IN  m.ok /\ file # "" =>
                                  /\ Rel(f) \in Keys
                                  /\ Rel(file) \in Elems(dependencyGraph[Rel(f)])

\* The call returned under a chain of three documents in which the tsconfig
\* and the document it extends both declare @/*, with different lists, and
\* only the last document declares #/*: "@/util" is found through the
\* tsconfig's list, and the table holds both patterns.
C22_Witness ==
    /\ pc = "returned"
    /\ tsMatchPath.defined
    /\ Len(ChainPaths(options.tsConfig)) = 3
    /\ RulesAt("/p/tsconfig.json") = <<AtLib>>
    /\ RulesAt("/p/cfg/base.json") = <<AtSrc>>
    /\ RulesAt("/p/cfg/root.json") = <<HashLib>>
    /\ Len(tsMatchPath.paths) = 2
    /\ "src/app.ts" \in Keys
    /\ dependencyGraph["src/app.ts"] = <<"lib/util.ts">>

\* The baseUrl the document at p declares, "" when it declares none.
BaseUrlAt(p) == ConfigAt(p).baseUrl

\* The positions in chain of the documents that declare a baseUrl.
DeclaresBaseUrl(chain) == {i \in 1..Len(chain) : BaseUrlAt(chain[i]) # ""}

\* The most derived document of chain that declares a baseUrl.
DeclaringDocument(chain) ==
    chain[CHOOSE i \in DeclaresBaseUrl(chain) : \A j \in DeclaresBaseUrl(chain) : i <= j]

(***************************************************************************)
(* C23  The effective baseUrl is the value of the most derived document    *)
(* of the extends chain that declares one (the tsconfig's own when it      *)
(* declares one, otherwise the inherited one), made absolute against the   *)
(* directory of the document that declared it, also when that document     *)
(* lies in another directory than the tsconfig named in the options.       *)
(***************************************************************************)
C23_BaseUrlOfDeclaringDocument ==
    \/ pc = "entry"
    \/ ~tsMatchPath.defined
    \/ LET chain == ChainPaths(options.tsConfig)
       IN  DeclaresBaseUrl(chain) # {} =>
               tsMatchPath.baseUrl = resolve(dirname(DeclaringDocument(chain)),
                                             BaseUrlAt(DeclaringDocument(chain)))

\* The tsconfig /p/tsconfig.json declares no baseUrl and inherits "." from
\* /p/cfg/base.json, which maps @/* to src/*: the matcher is built on /p,
\* and "@/util" is found in /p/src and not in /p/cfg/src.
C23_InheritedResolvedAgainstTsConfig ==
    /\ pc = "returned"
    /\ tsMatchPath.defined
    /\ ChainPaths(options.tsConfig) = <<"/p/tsconfig.json", "/p/cfg/base.json">>
    /\ BaseUrlAt("/p/tsconfig.json") = ""
    /\ BaseUrlAt("/p/cfg/base.json") = "."
    /\ tsMatchPath.paths = <<AtSrc>>
    /\ tsMatchPath.baseUrl = "/p"
    /\ "src/app.ts" \in Keys
    /\ dependencyGraph["src/app.ts"] = <<"src/util.ts">>

\* The tsconfig declares a baseUrl and so does the document it extends: the
\* matcher is built on the tsconfig's value, against the tsconfig's directory.
C23_OwnValueWins ==
    /\ pc = "returned"
    /\ tsMatchPath.defined
    /\ BaseUrlAt("/p/tsconfig.json") = "."
    /\ Len(ChainPaths(options.tsConfig)) = 2
    /\ BaseUrlAt("/p/cfg/base.json") = "."
    /\ tsMatchPath.baseUrl = "/p"

(***************************************************************************)
(* C24  Loading a tsconfig whose extends chain is cyclic stops at the      *)
(* cycle: no document is loaded a second time while an earlier load of it  *)
(* is still in progress, so the chain of calls in progress never holds a   *)
(* document twice.                                                         *)
(***************************************************************************)
C24_CycleIsBroken ==
    \A i, j \in 1..Len(loading) : loading[i] = loading[j] => i = j

\* The tsconfig extends itself: the load of /p/tsconfig.json has called
\* itself, and the call of buildDependencyGraph is still at its first await.
C24_SelfExtendsRecursed ==
    /\ pc = "entry"
    /\ Len(loading) >= 2
    /\ loading[1] = "/p/tsconfig.json"
    /\ loading[2] = "/p/tsconfig.json"

\* Two documents extend each other: the load went from the tsconfig to the
\* other document and came back.
C24_PairRecursed ==
    /\ pc = "entry"
    /\ Len(loading) = 3
    /\ loading[1] = "/p/tsconfig.json"
    /\ loading[2] = "/p/base.json"
    /\ loading[3] = "/p/tsconfig.json"

\* The specifier texts of f that occur in a reference that is not type-only.
ValueTexts(f) ==
    {fs[f].refs[i].text : i \in {k \in 1..Len(fs[f].refs) : ~fs[f].refs[k].typeOnly}} \ {""}

\* The specifier texts of f.
AllTexts(f) == {fs[f].refs[i].text : i \in 1..Len(fs[f].refs)} \ {""}

\* The edges the specifiers of f in texts stand for: what each resolves to,
\* when it resolves and the target is not excluded.
EdgesFrom(f, texts) ==
    {EdgeOf(resolveDependencyPath(s, dirname(f))) :
         s \in {t \in texts : KeepResolved(resolveDependencyPath(t, dirname(f)))}}

(***************************************************************************)
(* C25  With skipTypeImports enabled, the edges of a parsed file are those *)
(* of its specifiers that occur in at least one reference that is not      *)
(* type-only: a specifier met only in "import type ... from" or            *)
(* "export type ... from" gives no edge.  With skipTypeImports disabled,   *)
(* the edges are those of all its specifiers.                              *)
(***************************************************************************)
C25_TypeOnlySkipped ==
    \A f \in visited :
        Processed(f) /\ Rel(f) \in Keys =>
            Elems(dependencyGraph[Rel(f)])
                = EdgesFrom(f, IF options.skipTypeImports THEN ValueTexts(f) ELSE AllTexts(f))

\* skipTypeImports is enabled and file.ts holds "import type ... from
\* './types'" and "import ... from './values'": only values.ts is an edge.
C25_ImportTypeSkipped ==
    /\ pc = "returned"
    /\ options.skipTypeImports
    /\ fs["/p/file.ts"].refs = <<ImpType("./types"), Imp("./values")>>
    /\ dependencyGraph["file.ts"] = <<"values.ts">>
    /\ "types.ts" \notin Elems(allFiles)

\* skipTypeImports is enabled and file.ts holds only "export type ... from
\* './types'": types.ts is an edge all the same.
C25_ExportTypeKept ==
    /\ pc = "returned"
    /\ options.skipTypeImports
    /\ fs["/p/file.ts"].refs = <<ExpType("./types")>>
    /\ dependencyGraph["file.ts"] = <<"types.ts">>
    /\ "types.ts" \in Keys

\* Every graph key and every edge target.
KeysAndTargets == Keys \cup UNION {Elems(dependencyGraph[k]) : k \in Keys}

\* files holds no element twice.
NoDuplicates(files) == \A i, j \in 1..Len(files) : files[i] = files[j] => i = j

\* files is in ascending order.
Ascending(files) == \A i, j \in 1..Len(files) : i < j => ~Before(files[j], files[i])

(***************************************************************************)
(* C26  Once buildDependencyGraph has returned, the files it returns are   *)
(* exactly the graph keys and the edge targets, files and package names,   *)
(* each once, in ascending order, whatever the order in which the visits   *)
(* completed.  The list is Array.from(allFiles), the insertion order of    *)
(* the set (dependency.ts 367): the elements and their uniqueness hold,    *)
(* the order does not.                                                     *)
(***************************************************************************)
C26_ReturnedFilesSorted ==
    pc = "returned" =>
        /\ Elems(allFiles) = KeysAndTargets
        /\ NoDuplicates(allFiles)
        /\ Ascending(allFiles)

\* The part of C26 the code keeps: the elements, each once.
C26_ReturnedFilesComplete ==
    pc = "returned" =>
        /\ Elems(allFiles) = KeysAndTargets
        /\ NoDuplicates(allFiles)

\* file.ts imports values.ts and types.ts, the visit of types.ts completed
\* first and added its package before values.ts added its file: the list
\* returned is in that order.
C26_TypesFirst ==
    /\ pc = "returned"
    /\ allFiles = <<"file.ts", "values.ts", "types.ts", "lodash", "t/x.ts">>

\* The same project, the visit of values.ts having completed first.
C26_ValuesFirst ==
    /\ pc = "returned"
    /\ allFiles = <<"file.ts", "values.ts", "types.ts", "t/x.ts", "lodash">>

\* What the specifier s of f resolves to: an absolute path, a package name,
\* or "" when it is unresolved.
TargetOf(f, s) == resolveDependencyPath(s, dirname(f))

\* The specifier s of f resolved, and no exclusion pattern matches its target.
Survives(f, s) == TargetOf(f, s) # "" /\ ~Excluded(Rel(TargetOf(f, s)))

\* The edges of the specifiers of f in texts that survive.
SurvivingEdges(f, texts) == {EdgeOf(TargetOf(f, s)) : s \in {t \in texts : Survives(f, t)}}

(***************************************************************************)
(* C27  The edge list of a file that was read and parsed is exactly its    *)
(* specifiers that resolved to a file or package and were not excluded:    *)
(* every edge is the target of such a specifier, every such specifier      *)
(* that is not skipped as type-only has its target among the edges, and    *)
(* with skipTypeImports disabled the two sets are equal.  An unresolved    *)
(* specifier or an excluded target gives no edge, does not make the call   *)
(* fail, and leaves the file its key and its other edges.                  *)
(***************************************************************************)
C27_EdgesAreSurvivors ==
    /\ StartPathThrows \/ pc # "failed"
    /\ \A f \in visited :
           Processed(f) =>
               /\ Rel(f) \in Keys
               /\ Elems(dependencyGraph[Rel(f)]) \subseteq SurvivingEdges(f, AllTexts(f))
               /\ SurvivingEdges(f, ValueTexts(f)) \subseteq Elems(dependencyGraph[Rel(f)])
               /\ ~options.skipTypeImports =>
                      Elems(dependencyGraph[Rel(f)]) = SurvivingEdges(f, AllTexts(f))

\* file.ts imports './missing', which names nothing, and './values': the
\* call returned, and values.ts is the only edge of file.ts.
C27_Witness ==
    /\ pc = "returned"
    /\ fs["/p/file.ts"].refs = <<Imp("./missing"), Imp("./values")>>
    /\ TargetOf("/p/file.ts", "./missing") = ""
    /\ dependencyGraph["file.ts"] = <<"values.ts">>

\* file.ts imports './t/x', which the exclusion filter covers, and a
\* package: the package is the only edge, and t/x.ts was not visited.
C27_WitnessExcluded ==
    /\ pc = "returned"
    /\ fs["/p/file.ts"].refs = <<Imp("./t/x"), Imp("lodash")>>
    /\ Excluded("t/x.ts")
    /\ dependencyGraph["file.ts"] = <<"lodash">>
    /\ "/p/t/x.ts" \notin visited

\* The regular files beneath the start path, at any depth, whose extension
\* is one of fileExtensions and whose base-relative path no exclusion
\* pattern matches.
ExpectedSeeds ==
    {f \in DOMAIN fs : /\ StartsWith(f, startPath \o sep)
                       /\ IsFile(f)
                       /\ IsSourceFile(f)
                       /\ ~Excluded(Rel(f))}

\* No key of the graph has the file f as an edge target.
ImportedByNone(f) == \A k \in Keys : Rel(f) \notin Elems(dependencyGraph[k])

(***************************************************************************)
(* C28  When the start path is a directory, the seeds are exactly the      *)
(* regular files beneath it, at any depth, with an extension of            *)
(* fileExtensions and a base-relative path that no exclusion pattern       *)
(* matches, each once; when the call has returned every seed is visited    *)
(* and is a graph key, imported or not, and every seed was read and        *)
(* written once, however many seeds import it.                             *)
(***************************************************************************)
C28_DirectorySeeds ==
    Exists(startPath) /\ IsDirectory(startPath) /\ pc \in {"traversing", "returned"} =>
        /\ Elems(initialFiles) = ExpectedSeeds
        /\ NoDuplicates(initialFiles)
        /\ pc = "returned" =>
               \A f \in ExpectedSeeds :
                   /\ f \in visited
                   /\ Rel(f) \in Keys
                   /\ reads[f] = 1
                   /\ writes[Rel(f)] = 1

\* The call returned from the directory /p: c.ts is a key though no file
\* imports it, the file under t is a seed, and b.ts, a seed that the seed
\* a.ts imports, was entered twice and read once.
C28_Witness ==
    /\ pc = "returned"
    /\ startPath = "/p"
    /\ "/p/t/x.ts" \in Elems(initialFiles)
    /\ "c.ts" \in Keys
    /\ ImportedByNone("/p/c.ts")
    /\ "b.ts" \in Elems(dependencyGraph["a.ts"])
    /\ calls["/p/b.ts"] = 2
    /\ reads["/p/b.ts"] = 1

\* The call returned from the directory /p under a filter that covers t: the
\* file under t is no seed and no key.
C28_WitnessFiltered ==
    /\ pc = "returned"
    /\ startPath = "/p"
    /\ Excluded("t/x.ts")
    /\ Len(initialFiles) = 4
    /\ "t/x.ts" \notin Keys

\* A step keeps every key of the graph, with its edge list.
KeysKept ==
    /\ Keys \subseteq DOMAIN dependencyGraph'
    /\ \A k \in Keys : dependencyGraph'[k] = dependencyGraph[k]

(***************************************************************************)
(* C29  The keys of the graph only grow during a traversal: no step        *)
(* removes a key or changes the edge list of a key that is present, and    *)
(* the keys present are exactly those written, each written once, however  *)
(* many later or concurrent visits called for the file.                    *)
(***************************************************************************)
C29_KeysGrow ==
    /\ [][KeysKept]_vars
    /\ [](/\ DOMAIN writes = Keys
          /\ \A k \in Keys : writes[k] = 1)

\* a.ts and b.ts import each other and the call started at a.ts: the visit
\* of b.ts called for a.ts after a.ts had its key, and a.ts was written once.
C29_Witness ==
    /\ pc = "returned"
    /\ startPath = "/p/a.ts"
    /\ "b.ts" \in Elems(dependencyGraph["a.ts"])
    /\ "a.ts" \in Elems(dependencyGraph["b.ts"])
    /\ calls["/p/a.ts"] = 2
    /\ writes["a.ts"] = 1
    /\ Cardinality(Keys) >= 2

(***************************************************************************)
(* C30  buildDependencyGraph returns only after every visit it scheduled   *)
(* has completed: when it has returned no visit is still suspended, and    *)
(* every file in visited has its entry in the graph, also a file that one  *)
(* visitor marked and a second, concurrent visitor found marked and left   *)
(* at once.                                                                *)
(***************************************************************************)
C30_ReturnsAfterAllVisits ==
    pc = "returned" =>
        /\ \A p \in DOMAIN status : status[p] = "settled"
        /\ \A f \in visited : f \in DOMAIN status /\ Rel(f) \in Keys

\* The call started at a.ts, which imports b.ts and c.ts; both import d.ts,
\* so d.ts was called for twice and read once; the call returned and d.ts
\* has its entry.
C30_Witness ==
    /\ pc = "returned"
    /\ startPath = "/p/a.ts"
    /\ dependencyGraph["a.ts"] = <<"b.ts", "c.ts">>
    /\ "d.ts" \in Elems(dependencyGraph["b.ts"])
    /\ "d.ts" \in Elems(dependencyGraph["c.ts"])
    /\ calls["/p/d.ts"] = 2
    /\ reads["/p/d.ts"] = 1
    /\ "d.ts" \in Keys

\* In that traversal the promise of the second visitor's caller is fulfilled
\* while the visit of d.ts, started by the first, is still suspended: the
\* call has not returned, and d.ts has no entry yet.
C30_SecondVisitorLeft ==
    /\ pc = "traversing"
    /\ startPath = "/p/a.ts"
    /\ "/p/d.ts" \in visited
    /\ calls["/p/d.ts"] = 2
    /\ status["/p/d.ts"] = "pending"
    /\ "d.ts" \notin Keys
    /\ \E c \in {"/p/b.ts", "/p/c.ts"} :
           /\ c \in DOMAIN status
           /\ Fulfilled(c)
           /\ "d.ts" \in Elems(dependencyGraph[Rel(c)])

(***************************************************************************)
(* C31  The dependencies of a key are a set: no edge list holds the same   *)
(* target twice, also when the file names one target through two           *)
(* different specifier texts.                                              *)
(***************************************************************************)
C31_EdgeListsAreSets ==
    \A k \in Keys : NoDuplicates(dependencyGraph[k])

\* file.ts imports './values' and './values.ts': the two texts are distinct
\* members of the dependencies Set, both resolve to /p/values.ts, and the
\* edge list of file.ts holds values.ts twice.
C31_SameTargetTwice ==
    /\ pc = "returned"
    /\ fs["/p/file.ts"].refs = <<Imp("./values"), Imp("./values.ts")>>
    /\ dependencyGraph["file.ts"] = <<"values.ts", "values.ts">>

\* file.ts imports './values' twice: the text is collected once and
\* values.ts is an edge once.
C31_SameTextOnce ==
    /\ pc = "returned"
    /\ fs["/p/file.ts"].refs = <<Imp("./values"), Imp("./values")>>
    /\ dependencyGraph["file.ts"] = <<"values.ts">>

\* The positions in f at which a specifier text occurs for the first time.
FirstOccurrences(f) ==
    {i \in 1..Len(fs[f].refs) :
         /\ fs[f].refs[i].text # ""
         /\ \A j \in 1..(i - 1) : fs[f].refs[j].text # fs[f].refs[i].text}

\* The distinct specifier texts of f in the order of their first occurrence.
OrderedTexts(f) ==
    [k \in 1..Cardinality(FirstOccurrences(f)) |->
        fs[f].refs[CHOOSE i \in FirstOccurrences(f) :
                       Cardinality({j \in FirstOccurrences(f) : j <= i}) = k].text]

\* The edges of the surviving specifiers of f, in the order of first occurrence.
OrderedEdges(f) ==
    LET kept == SelectSeq(OrderedTexts(f), LAMBDA s : Survives(f, s))
    IN  [k \in 1..Len(kept) |-> EdgeOf(TargetOf(f, kept[k]))]

\* No reference of f is type-only.
NoTypeOnly(f) == \A i \in 1..Len(fs[f].refs) : ~fs[f].refs[i].typeOnly

(***************************************************************************)
(* C32  The order of a file's edge list is fixed by the file: edges stand  *)
(* in the order in which their specifiers occur, whatever the order in     *)
(* which the concurrent resolutions settled.  Where no specifier is        *)
(* skipped as type-only the edge list is exactly the surviving distinct    *)
(* specifiers in the order of their first occurrence; in every case two    *)
(* edges stand in the order of two references that resolve to them.        *)
(***************************************************************************)
C32_EdgeOrderStable ==
    \A f \in visited :
        Processed(f) /\ Rel(f) \in Keys =>
            LET edges == dependencyGraph[Rel(f)]
                refs  == fs[f].refs
            IN  /\ NoTypeOnly(f) \/ ~options.skipTypeImports => edges = OrderedEdges(f)
                /\ \A i, j \in 1..Len(edges) :
                       i < j =>
                           \E p, q \in 1..Len(refs) :
                               /\ p < q
                               /\ Survives(f, refs[p].text) /\ Survives(f, refs[q].text)
                               /\ EdgeOf(TargetOf(f, refs[p].text)) = edges[i]
                               /\ EdgeOf(TargetOf(f, refs[q].text)) = edges[j]

\* file.ts imports './values' and then './types': values.ts is the first
\* edge, whichever resolution settled first.
C32_Witness ==
    /\ pc = "returned"
    /\ fs["/p/file.ts"].refs = <<Imp("./values"), Imp("./types")>>
    /\ CompletionOrders(Resolutions("/p/file.ts")) = {<<1, 2>>, <<2, 1>>}
    /\ dependencyGraph["file.ts"] = <<"values.ts", "types.ts">>

\* file.ts imports './types' and then './values': types.ts is the first edge.
C32_WitnessReversed ==
    /\ pc = "returned"
    /\ fs["/p/file.ts"].refs = <<Imp("./types"), Imp("./values")>>
    /\ dependencyGraph["file.ts"] = <<"types.ts", "values.ts">>

\* The graph the invocation started at the seeds builds when it runs alone.
AloneGraph(seeds) == SeqVisitAll(<<>>, seeds)

\* The traversal state st holds the result of the invocation run alone from
\* seeds: the same keys with the same edge lists, the same files, and every
\* file of the result marked by this invocation and read by it once.
SameAsAlone(st, seeds) ==
    LET alone == AloneGraph(seeds)
    IN  /\ DOMAIN st.graph = DOMAIN alone
        /\ \A k \in DOMAIN alone : st.graph[k] = alone[k]
        /\ Elems(st.allFiles) = DOMAIN alone
        /\ \A f \in DOMAIN fs :
               Rel(f) \in DOMAIN alone =>
                   /\ f \in st.visited
                   /\ IsSourceFile(f) => f \in DOMAIN st.reads /\ st.reads[f] = 1

(***************************************************************************)
(* C33  The visited set, the graph and the file list belong to one         *)
(* invocation: of two invocations interleaved at their suspension points,  *)
(* each marks and reads for itself every file it reaches, whatever the     *)
(* other has marked, and each returns the result it returns when run       *)
(* alone.                                                                  *)
(***************************************************************************)
C33_InvocationsIndependent ==
    /\ pc = "returned" => SameAsAlone(Locals, SeedsOfStartPath)
    /\ other.pc = "returned" => SameAsAlone(other.st, OtherSeeds)

\* The first invocation has marked b.ts and is suspended on it; the second,
\* started at b.ts meanwhile, marked b.ts for itself, read it and returned
\* with b.ts as a key.
C33_Witness ==
    /\ pc = "traversing"
    /\ "/p/b.ts" \in visited
    /\ status["/p/b.ts"] = "pending"
    /\ other.pc = "returned"
    /\ other.startPath = "/p/b.ts"
    /\ "/p/b.ts" \in other.st.visited
    /\ other.st.reads["/p/b.ts"] = 1
    /\ "b.ts" \in DOMAIN other.st.graph

\* Both invocations started at a.ts, interleaved, and both returned: the
\* two graphs are equal and a.ts was read once by each.
C33_WitnessBothReturned ==
    /\ pc = "returned"
    /\ other.pc = "returned"
    /\ other.startPath = "/p/a.ts"
    /\ other.st.graph = dependencyGraph
    /\ Cardinality(Keys) >= 3
    /\ reads["/p/a.ts"] = 1
    /\ other.st.reads["/p/a.ts"] = 1

\* A source file that was read and parsed and whose AST walk throws.
WalkThrows(f) ==
    /\ IsFile(f) /\ IsSourceFile(f) /\ fs[f].readable /\ fs[f].parses
    /\ "met" \in DOMAIN fs[f]

(***************************************************************************)
(* C34  A file whose specifier extraction fails after its text was parsed  *)
(* is handled like a file that does not parse: once its visit has          *)
(* continued, its graph entry is the empty list, whatever specifiers the   *)
(* walk had collected before it failed.                                    *)
(***************************************************************************)
C34_WalkFailureDegrades ==
    \A f \in visited :
        (f \in DOMAIN status /\ status[f] = "settled" /\ WalkThrows(f)) =>
            Rel(f) \in Keys /\ dependencyGraph[Rel(f)] = <<>>

\* The walk of file.ts threw after it had met './values' and before
\* './types': values.ts is an edge of file.ts and was visited.
C34_PartialList ==
    /\ pc = "returned"
    /\ WalkThrows("/p/file.ts")
    /\ fs["/p/file.ts"].refs = <<Imp("./values"), Imp("./types")>>
    /\ fs["/p/file.ts"].met = 1
    /\ dependencyGraph["file.ts"] = <<"values.ts">>
    /\ "values.ts" \in Keys
    /\ "types.ts" \notin Keys

\* The walk of file.ts threw before it met a reference: the entry is empty.
C34_NothingCollected ==
    /\ pc = "returned"
    /\ WalkThrows("/p/file.ts")
    /\ fs["/p/file.ts"].met = 0
    /\ dependencyGraph["file.ts"] = <<>>

(***************************************************************************)
(* C35  With includeNpm true, a package specifier (bare, matched by no     *)
(* alias) of a processed file always yields an edge that is exactly the    *)
(* specifier's text: it is not made relative to baseDir and no exclusion   *)
(* pattern removes it.                                                     *)
(***************************************************************************)
C35_PackageKeptAsIs ==
    \A f \in visited :
        (Processed(f) /\ options.includeNpm /\ ~tsMatchPath.defined) =>
            \A i \in 1..Len(SpecifiersOf(f)) :
                IsBare(SpecifiersOf(f)[i]) =>
                    SpecifiersOf(f)[i] \in Elems(dependencyGraph[Rel(f)])

\* The pattern /lodash/ removed the package edge of file.ts.
C35_PackageExcluded ==
    /\ pc = "returned"
    /\ options.includeNpm
    /\ options.excludeRegExp = <<[kind |-> "contains", text |-> "lodash"]>>
    /\ fs["/p/file.ts"].refs = <<Imp("lodash")>>
    /\ dependencyGraph["file.ts"] = <<>>
    /\ allFiles = <<"file.ts">>

\* A pattern that matches the working directory removed the package edge
\* and kept the file edge.
C35_ExcludedByWorkingDirectory ==
    /\ pc = "returned"
    /\ options.excludeRegExp = <<[kind |-> "contains", text |-> "w/"]>>
    /\ fs["/p/file.ts"].refs = <<Imp("./values"), Imp("lodash")>>
    /\ dependencyGraph["file.ts"] = <<"values.ts">>

\* No pattern matches: the edge is the specifier's text, and the package is
\* listed in files without being a key.
C35_PackageEdgeIsRawText ==
    /\ pc = "returned"
    /\ options.includeNpm
    /\ fs["/p/file.ts"].refs = <<Imp("lodash")>>
    /\ dependencyGraph["file.ts"] = <<"lodash">>
    /\ "lodash" \in Elems(allFiles)
    /\ "lodash" \notin Keys

\* The start path is one the entry handling rejects: stat fails, a regular
\* file without a source extension, or neither a regular file nor a directory.
EntryRejected ==
    \/ ~Exists(startPath)
    \/ fs[startPath].type = "file" /\ ~HasSourceExtension(startPath)
    \/ fs[startPath].type \notin {"file", "dir"}

\* The edge list of f computed from f alone: what each of its specifiers
\* resolves to, in specifier order, without the unresolved and the excluded.
CompleteEdges(f) ==
    LET kept == SelectSeq(ResolvedOf(f), LAMBDA t : t # "" /\ ~Excluded(Rel(t)))
    IN  [i \in 1..Len(kept) |-> EdgeOf(kept[i])]

(***************************************************************************)
(* C36  A failure while loading the configuration, or while reading,       *)
(* parsing or resolving a file other than the entry, never leaves          *)
(* buildDependencyGraph: the call fails only when the entry is invalid,    *)
(* and the graph it returns otherwise has, for every file that was read    *)
(* and parsed, a key with the complete edge list of that file.             *)
(***************************************************************************)
C36_OnlyEntryFailurePropagates ==
    /\ pc = "failed" => EntryRejected
    /\ pc = "returned" =>
           \A f \in visited :
               ParsesOk(f) =>
                   /\ Rel(f) \in Keys
                   /\ dependencyGraph[Rel(f)] = CompleteEdges(f)

\* The call returned although the tsconfig could not be loaded, b.ts could
\* not be parsed and './missing' resolved to nothing: a.ts has its edge, and
\* b.ts has the empty list.
C36_Witness ==
    /\ pc = "returned"
    /\ options.tsConfig # "" /\ ChainBroken(options.tsConfig)
    /\ fs["/p/a.ts"].refs = <<Imp("./b"), Imp("./missing")>>
    /\ Faulty("/p/b.ts")
    /\ dependencyGraph["a.ts"] = <<"b.ts">>
    /\ dependencyGraph["b.ts"] = <<>>

\* The call returned with a broken tsconfig and an unreadable d.ts below
\* two readable files: b.ts and c.ts keep their edge to d.ts.
C36_WitnessFailureBelow ==
    /\ pc = "returned"
    /\ options.tsConfig # "" /\ ChainBroken(options.tsConfig)
    /\ Faulty("/p/d.ts")
    /\ dependencyGraph["a.ts"] = <<"b.ts", "c.ts">>
    /\ dependencyGraph["b.ts"] = <<"d.ts">>
    /\ dependencyGraph["c.ts"] = <<"d.ts">>
    /\ dependencyGraph["d.ts"] = <<>>

\* t is a regular file whose extension is not in fileExtensions.
NonSourceFile(t) ==
    /\ IsFile(t)
    /\ \A i \in 1..Len(options.fileExtensions) :
           extname(t) # "." \o options.fileExtensions[i]

(***************************************************************************)
(* C37  A specifier of a processed file that resolves to an existing file  *)
(* whose extension is not in fileExtensions, and that no exclusion pattern *)
(* covers, gives an edge of its importer; the target is listed in files    *)
(* and is a graph key with the empty dependency list, and it is never      *)
(* opened: no read of it is ever started.                                  *)
(***************************************************************************)
C37_NonSourceTargetIsLeaf ==
    /\ \A t \in visited : NonSourceFile(t) =>
           /\ t \notin DOMAIN reads
           /\ Rel(t) \in Elems(allFiles)
           /\ status[t] = "settled" =>
                  Rel(t) \in Keys /\ dependencyGraph[Rel(t)] = <<>>
    /\ \A f \in visited :
           Processed(f) =>
               \A t \in KeptOf(f) :
                   NonSourceFile(t) =>
                       /\ Rel(t) \in Elems(dependencyGraph[Rel(f)])
                       /\ t \in visited

\* app.ts imports './util.js' and only ts is a source extension: util.js is
\* an edge, a key without dependencies and a listed file, and was not read.
C37_Witness ==
    /\ pc = "returned"
    /\ fs["/p/src/app.ts"].refs = <<Imp("./util.js")>>
    /\ NonSourceFile("/p/src/util.js")
    /\ dependencyGraph[Rel("/p/src/app.ts")] = <<Rel("/p/src/util.js")>>
    /\ dependencyGraph[Rel("/p/src/util.js")] = <<>>
    /\ Rel("/p/src/util.js") \in Elems(allFiles)
    /\ "/p/src/util.js" \notin DOMAIN reads
    /\ "/p/src/app.ts" \in DOMAIN reads

====
